---- MODULE Spec2Model ----
(***************************************************************************)
(* The BGP-4 wire codec of l3/bgp/packet (bgp.go): header, OPEN, UPDATE,   *)
(* NOTIFICATION and KEEPALIVE bodies, path attributes, NLRI, Encode,       *)
(* Decode and Clone.                                                       *)
(*                                                                         *)
(* Conventions.  A Go []byte is a sequence of 0..255; Go index i is TLA+   *)
(* index i+1 (see At, Slice, From).  Every buffer is taken to have         *)
(* cap = len, as produced by make([]byte, n) or a []byte literal.  A nil   *)
(* slice and an empty slice are both << >>.  A Go run-time panic (index    *)
(* or slice bounds out of range, nil dereference) is the outcome Panic; a  *)
(* loop that never ends is the outcome Diverge.  Fixed-width integers      *)
(* wrap as in Go (U8, U16, U32).                                           *)
(***************************************************************************)
EXTENDS Integers, Sequences, FiniteSets, TLC

\* ------------------------------------------------------------------ bytes

U8(x) == x % 256
U16(x) == x % 65536
\* A uint32 is held as its two's-complement representative in -2^31 .. 2^31-1,
\* the range of the integers the model checker computes with: the representative
\* of a sum or difference of small operands is the integer itself, and x > 0 on a
\* uint32 reads x # 0 on its representative.
U32(x) == x

At(pkt, i) == pkt[i + 1]
From(pkt, lo) == SubSeq(pkt, lo + 1, Len(pkt))
Slice(pkt, lo, hi) == SubSeq(pkt, lo + 1, hi)

Zeros(n) == [i \in 1..n |-> 0]

\* copy(dst[at:], src): overwrites min(len(dst)-at, len(src)) bytes
Copy(dst, at, src) ==
    [i \in 1..Len(dst) |->
        IF i > at /\ i - at <= Len(src) THEN src[i - at] ELSE dst[i]]

\* binary.BigEndian
Uint16(pkt) == At(pkt, 0) * 256 + At(pkt, 1)
Uint32(pkt) ==
    (((IF At(pkt, 0) >= 128 THEN At(pkt, 0) - 256 ELSE At(pkt, 0)) * 256 + At(pkt, 1)) * 256 +
      At(pkt, 2)) * 256 + At(pkt, 3)
Bytes16(v) == << (v \div 256) % 256, v % 256 >>
Bytes32(v) == << (v \div 16777216) % 256, (v \div 65536) % 256, (v \div 256) % 256, v % 256 >>

RECURSIVE BitAnd(_, _)
BitAnd(a, b) ==
    IF a = 0 \/ b = 0 THEN 0
    ELSE (a % 2) * (b % 2) + 2 * BitAnd(a \div 2, b \div 2)

RECURSIVE BitXor(_, _)
BitXor(a, b) ==
    IF a = 0 /\ b = 0 THEN 0
    ELSE (((a % 2) + (b % 2)) % 2) + 2 * BitXor(a \div 2, b \div 2)

BitOr(a, b) == a + b - BitAnd(a, b)

\* --------------------------------------------------------------- outcomes

Nil == [kind |-> "nil"]
Panic == [kind |-> "panic"]
Diverge == [kind |-> "diverge"]
BGPMessageError(typeCode, subTypeCode, data) ==
    [kind |-> "error", TypeCode |-> typeCode, SubTypeCode |-> subTypeCode, Data |-> data]

IsError(e) == e.kind = "error"

\* -------------------------------------------------------------- constants

BGPASTrans == 23456
BGPHeaderMarkerLen == 16
BGPMsgTypeOpen == 1
BGPMsgTypeUpdate == 2
BGPMsgTypeNotification == 3
BGPMsgTypeKeepAlive == 4
BGPMsgHeaderLen == 19
BGPMsgMaxLen == 4096

BGPMsgHeaderError == 1
BGPOpenMsgError == 2
BGPUpdateMsgError == 3

BGPConnNotSychd == 1
BGPBadMessageLen == 2
BGPBadMessageType == 3

BGPUnspecific == 0
BGPUnsupportedVersionNumber == 1
BGPBadPeerAS == 2
BGPBadBGPIdentifier == 3
BGPUnsupportedOptionalParam == 4
BGPUnacceptableHoldTime == 6
BGPUnsupportedCapability == 7

BGPMalformedAttrList == 1
BGPUnrecognizedWellKnownAttr == 2
BGPMissingWellKnownAttr == 3
BGPAttrFlagsError == 4
BGPAttrLenError == 5
BGPInvalidOriginAttr == 6
BGPInvalidNextHopAttr == 8
BGPOptionalAttrError == 9
BGPInvalidNetworkField == 10
BGPMalformedASPath == 11

BGPOptParamTypeCapability == 2
BGPCapTypeMPExt == 1
BGPCapTypeAS4Path == 65
BGPCapTypeAddPath == 69

BGPPathAttrFlagExtendedLen == 16
BGPPathAttrFlagPartial == 32
BGPPathAttrFlagTransitive == 64
BGPPathAttrFlagOptional == 128
BGPPathAttrFlagAllMinusExtendedLen == 224

BGPPathAttrTypeOrigin == 1
BGPPathAttrTypeASPath == 2
BGPPathAttrTypeNextHop == 3
BGPPathAttrTypeMultiExitDisc == 4
BGPPathAttrTypeLocalPref == 5
BGPPathAttrTypeAtomicAggregate == 6
BGPPathAttrTypeAggregator == 7
BGPPathAttrTypeOriginatorId == 9
BGPPathAttrTypeClusterList == 10
BGPPathAttrTypeMPReachNLRI == 14
BGPPathAttrTypeMPUnreachNLRI == 15
BGPPathAttrTypeAS4Path == 17
BGPPathAttrTypeAS4Aggregator == 18
BGPPathAttrTypeUnknown == 19

BGPPathAttrOriginMax == 3

BGPASPathSegmentSet == 1
BGPASPathSegmentSequence == 2

MaxUint16 == 65535

\* AFI of IPv4 (declared in the package's AFI/SAFI file)
AfiIP == 1
SafiUnicast == 1

BGPPathAttrWellKnownMandatory ==
    << BGPPathAttrTypeOrigin, BGPPathAttrTypeASPath, BGPPathAttrTypeNextHop >>

\* ----------------------------------------------------------------- header

\* BGPHeader; the Marker array is never written by Decode and stays zero
NewBGPHeader == [Marker |-> Zeros(BGPHeaderMarkerLen), Length |-> 0, Type |-> 0]

BGPHeader_Encode(header) ==
    [i \in 1..BGPHeaderMarkerLen |-> 255] \o Bytes16(header.Length) \o << header.Type >>

\* on 18 bytes Length is read before pkt[18] panics
BGPHeader_Decode(header, pkt) ==
    IF Len(pkt) < 18 THEN [err |-> Panic, header |-> header]
    ELSE IF Len(pkt) < 19
    THEN [err |-> Panic, header |-> [header EXCEPT !.Length = Uint16(Slice(pkt, 16, 18))]]
    ELSE [err |-> Nil,
          header |-> [header EXCEPT !.Length = Uint16(Slice(pkt, 16, 18)),
                                    !.Type = At(pkt, 18)]]

\* ------------------------------------------------------------------- NLRI

\* BGPPeerAttrs: AddPathFamily is a map AFI -> (map SAFI -> flags)
BGPPeerAttrs(asSize, addPathFamily) == [ASSize |-> asSize, AddPathFamily |-> addPathFamily]

NewIPPrefix(prefix, length) == [kind |-> "IPPrefix", Length |-> length, Prefix |-> prefix]

NewExtNLRI(pathId, prefix) ==
    [kind |-> "ExtNLRI", Length |-> prefix.Length, Prefix |-> prefix.Prefix, PathId |-> pathId]

\* uint8 arithmetic: ((ip.Length + 7) / 8) + 1
IPPrefix_Len(ip) == (U8(ip.Length + 7) \div 8) + 1

IPPrefix_Encode(ip) ==
    LET pkt == Copy(Zeros(IPPrefix_Len(ip)), 0, << ip.Length >>)
        ipBytesStart == U8(Len(ip.Prefix) - 4 + 256)
        ipBytesEnd == U8(ipBytesStart + (U8(ip.Length + 7) \div 8))
    IN  IF ipBytesStart > ipBytesEnd \/ ipBytesEnd > Len(ip.Prefix)
        THEN [err |-> Panic, pkt |-> << >>]
        ELSE [err |-> Nil, pkt |-> Copy(pkt, 1, Slice(ip.Prefix, ipBytesStart, ipBytesEnd))]

IPPrefix_Decode(pkt) ==
    IF Len(pkt) = 0 THEN [err |-> Panic, nlri |-> NewIPPrefix(<< >>, 0)]
    ELSE LET length == At(pkt, 0)
             bytes == U8(length + 7) \div 8
         IN  IF Len(pkt) < bytes
             THEN [err |-> BGPMessageError(BGPUpdateMsgError, BGPMalformedAttrList, << >>),
                   nlri |-> NewIPPrefix(<< >>, length)]
             ELSE IF bytes + 1 > Len(pkt)
             THEN [err |-> Panic, nlri |-> NewIPPrefix(Zeros(4), length)]
             ELSE [err |-> Nil,
                   nlri |-> NewIPPrefix(Copy(Zeros(4), 0, Slice(pkt, 1, bytes + 1)), length)]

ExtNLRI_Len(n) == IPPrefix_Len(n) + 4

ExtNLRI_Encode(n) ==
    LET ip == IPPrefix_Encode(n)
    IN  IF ip.err # Nil THEN [err |-> ip.err, pkt |-> << >>]
        ELSE [err |-> Nil, pkt |-> Bytes32(n.PathId) \o ip.pkt]

ExtNLRI_Decode(pkt) ==
    IF Len(pkt) < 4 THEN [err |-> Panic, nlri |-> NewExtNLRI(0, NewIPPrefix(<< >>, 0))]
    ELSE LET ip == IPPrefix_Decode(From(pkt, 4))
         IN  [err |-> ip.err, nlri |-> NewExtNLRI(Uint32(Slice(pkt, 0, 4)), ip.nlri)]

NLRI_Len(n) == IF n.kind = "ExtNLRI" THEN ExtNLRI_Len(n) ELSE IPPrefix_Len(n)
NLRI_Encode(n) == IF n.kind = "ExtNLRI" THEN ExtNLRI_Encode(n) ELSE IPPrefix_Encode(n)

\* the loop of BGPUpdate.decodeIPPrefix
RECURSIVE decodeIPPrefix_loop(_, _, _, _, _)
decodeIPPrefix_loop(pkt, ipPrefix, length, data, ptr) ==
    IF ptr < length
    THEN LET d == IF AfiIP \in DOMAIN data.AddPathFamily
                  THEN ExtNLRI_Decode(From(pkt, ptr))
                  ELSE IPPrefix_Decode(From(pkt, ptr))
         IN  IF d.err # Nil THEN [err |-> d.err, ptr |-> ptr, list |-> ipPrefix]
             ELSE decodeIPPrefix_loop(pkt, Append(ipPrefix, d.nlri), length, data,
                                      ptr + NLRI_Len(d.nlri))
    ELSE IF ptr # length
    THEN [err |-> BGPMessageError(BGPUpdateMsgError, BGPAttrLenError, pkt),
          ptr |-> ptr, list |-> ipPrefix]
    ELSE [err |-> Nil, ptr |-> ptr, list |-> ipPrefix]

BGPUpdate_decodeIPPrefix(pkt, ipPrefix, length, data) ==
    IF length > Len(pkt)
    THEN [err |-> BGPMessageError(BGPUpdateMsgError, BGPMalformedAttrList, << >>),
          ptr |-> 0, list |-> ipPrefix]
    ELSE decodeIPPrefix_loop(pkt, ipPrefix, length, data, 0)

\* ------------------------------------------------- path attributes: base

BGPPathAttrTypeFlagsMap ==
    (BGPPathAttrTypeOrigin :> << BGPPathAttrFlagTransitive, BGPPathAttrFlagAllMinusExtendedLen >>) @@
    (BGPPathAttrTypeASPath :> << BGPPathAttrFlagTransitive, BGPPathAttrFlagAllMinusExtendedLen >>) @@
    (BGPPathAttrTypeNextHop :> << BGPPathAttrFlagTransitive, BGPPathAttrFlagAllMinusExtendedLen >>) @@
    (BGPPathAttrTypeMultiExitDisc :> << BGPPathAttrFlagOptional, BGPPathAttrFlagAllMinusExtendedLen >>) @@
    (BGPPathAttrTypeLocalPref :> << BGPPathAttrFlagTransitive, BGPPathAttrFlagAllMinusExtendedLen >>) @@
    (BGPPathAttrTypeAtomicAggregate :> << BGPPathAttrFlagTransitive, BGPPathAttrFlagAllMinusExtendedLen >>) @@
    (BGPPathAttrTypeAggregator :>
        << BitAnd(BGPPathAttrFlagOptional, BGPPathAttrFlagTransitive), BGPPathAttrFlagAllMinusExtendedLen >>) @@
    (BGPPathAttrTypeOriginatorId :> << BGPPathAttrFlagOptional, BGPPathAttrFlagAllMinusExtendedLen >>) @@
    (BGPPathAttrTypeClusterList :> << BGPPathAttrFlagOptional, BGPPathAttrFlagAllMinusExtendedLen >>) @@
    (BGPPathAttrTypeMPReachNLRI :> << BGPPathAttrFlagOptional, BGPPathAttrFlagAllMinusExtendedLen >>) @@
    (BGPPathAttrTypeMPUnreachNLRI :> << BGPPathAttrFlagOptional, BGPPathAttrFlagAllMinusExtendedLen >>) @@
    (BGPPathAttrTypeAS4Path :>
        << BitAnd(BGPPathAttrFlagOptional, BGPPathAttrFlagTransitive), BGPPathAttrFlagAllMinusExtendedLen >>) @@
    (BGPPathAttrTypeAS4Aggregator :>
        << BitAnd(BGPPathAttrFlagOptional, BGPPathAttrFlagTransitive), BGPPathAttrFlagAllMinusExtendedLen >>)

BGPPathAttrTypeLenMap ==
    (BGPPathAttrTypeOrigin :> 1) @@
    (BGPPathAttrTypeNextHop :> 4) @@
    (BGPPathAttrTypeMultiExitDisc :> 4) @@
    (BGPPathAttrTypeLocalPref :> 4) @@
    (BGPPathAttrTypeAtomicAggregate :> 0) @@
    (BGPPathAttrTypeAggregator :> 6) @@
    (BGPPathAttrTypeAS4Aggregator :> 6)

\* BGPPathAttrBase{}: the zero value
BGPPathAttrBase(flags, code, length, attrLen) ==
    [Flags |-> flags, Code |-> code, Length |-> length, BGPPathAttrLen |-> attrLen]

BGPPathAttrBase_TotalLen(pa) == pa.Length + pa.BGPPathAttrLen

\* BGPMessageError{BGPUpdateMsgError, sub, pkt[:pa.TotalLen()], ...}: the slice
\* expression panics when TotalLen exceeds the buffer
AttrError(sub, pkt, pa) ==
    IF BGPPathAttrBase_TotalLen(pa) > Len(pkt) THEN Panic
    ELSE BGPMessageError(BGPUpdateMsgError, sub, Slice(pkt, 0, BGPPathAttrBase_TotalLen(pa)))

BGPPathAttrBase_Encode(pa) ==
    LET pkt == Zeros(BGPPathAttrBase_TotalLen(pa))
    IN  IF Len(pkt) < 2 THEN [err |-> Panic, pkt |-> << >>]
        ELSE IF BitAnd(pa.Flags, BGPPathAttrFlagExtendedLen) # 0
        THEN IF Len(pkt) < 4 THEN [err |-> Panic, pkt |-> << >>]
             ELSE [err |-> Nil, pkt |-> Copy(pkt, 0, << pa.Flags, pa.Code >> \o Bytes16(pa.Length))]
        ELSE IF Len(pkt) < 3 THEN [err |-> Panic, pkt |-> << >>]
             ELSE [err |-> Nil, pkt |-> Copy(pkt, 0, << pa.Flags, pa.Code, U8(pa.Length) >>)]

BGPPathAttrBase_checkFlags(pa, pkt) ==
    IF /\ BitAnd(pa.Flags, BGPPathAttrFlagOptional) # 0
       /\ BitAnd(pa.Flags, BGPPathAttrFlagTransitive) = 0
       /\ BitAnd(pa.Flags, BGPPathAttrFlagPartial) = 0
    THEN AttrError(BGPAttrFlagsError, pkt, pa)
    ELSE Nil

\* BGPPathAttrBase.Decode without the comparison against BGPPathAttrTypeLenMap
BGPPathAttrBase_check_noLenMap(pa, pkt) ==
    IF Len(pkt) < U16(pa.Length + pa.BGPPathAttrLen)
    THEN BGPMessageError(BGPUpdateMsgError, BGPMalformedAttrList, pkt)
    ELSE IF /\ pa.Code \in DOMAIN BGPPathAttrTypeFlagsMap
            /\ BitAnd(BitXor(BGPPathAttrTypeFlagsMap[pa.Code][1], pa.Flags),
                      BGPPathAttrTypeFlagsMap[pa.Code][2]) # 0
    THEN AttrError(BGPAttrFlagsError, pkt, pa)
    ELSE IF BGPPathAttrBase_checkFlags(pa, pkt) # Nil
    THEN BGPPathAttrBase_checkFlags(pa, pkt)
    ELSE IF BitAnd(pa.Flags, BGPPathAttrFlagOptional) > 0 /\ pa.Code >= BGPPathAttrTypeUnknown
    THEN AttrError(BGPUnrecognizedWellKnownAttr, pkt, pa)
    ELSE Nil

\* the part of BGPPathAttrBase.Decode that runs once flags, code and length are read
BGPPathAttrBase_check(pa, pkt) ==
    IF Len(pkt) < U16(pa.Length + pa.BGPPathAttrLen)
    THEN BGPMessageError(BGPUpdateMsgError, BGPMalformedAttrList, pkt)
    ELSE IF /\ pa.Code \in DOMAIN BGPPathAttrTypeFlagsMap
            /\ BitAnd(BitXor(BGPPathAttrTypeFlagsMap[pa.Code][1], pa.Flags),
                      BGPPathAttrTypeFlagsMap[pa.Code][2]) # 0
    THEN AttrError(BGPAttrFlagsError, pkt, pa)
    ELSE IF BGPPathAttrBase_checkFlags(pa, pkt) # Nil
    THEN BGPPathAttrBase_checkFlags(pa, pkt)
    ELSE IF pa.Code \in DOMAIN BGPPathAttrTypeLenMap /\ BGPPathAttrTypeLenMap[pa.Code] # pa.Length
    THEN AttrError(BGPAttrLenError, pkt, pa)
    ELSE IF BitAnd(pa.Flags, BGPPathAttrFlagOptional) > 0 /\ pa.Code >= BGPPathAttrTypeUnknown
    THEN AttrError(BGPUnrecognizedWellKnownAttr, pkt, pa)
    ELSE Nil

\* BGPPathAttrBase.Decode on a zero-valued base: the error and the fields as left
BGPPathAttrBase_Decode(pkt) ==
    IF Len(pkt) < 3
    THEN [err |-> BGPMessageError(BGPUpdateMsgError, BGPMalformedAttrList, << >>),
          pa |-> BGPPathAttrBase(0, 0, 0, 0)]
    ELSE IF BitAnd(At(pkt, 0), BGPPathAttrFlagExtendedLen) # 0
    THEN IF Len(pkt) < 4
         THEN [err |-> BGPMessageError(BGPUpdateMsgError, BGPMalformedAttrList, << >>),
               pa |-> BGPPathAttrBase(At(pkt, 0), At(pkt, 1), 0, 0)]
         ELSE LET pa == BGPPathAttrBase(At(pkt, 0), At(pkt, 1), Uint16(Slice(pkt, 2, 4)), 4)
              IN  [err |-> BGPPathAttrBase_check(pa, pkt), pa |-> pa]
    ELSE LET pa == BGPPathAttrBase(At(pkt, 0), At(pkt, 1), At(pkt, 2), 3)
         IN  [err |-> BGPPathAttrBase_check(pa, pkt), pa |-> pa]

\* ---------------------------------------------------- AS path segments

NewBGPAS2PathSegment(segType) ==
    [kind |-> "BGPAS2PathSegment", Type |-> segType, Length |-> 0,
     BGPASPathSegmentLen |-> 2, AS |-> << >>]

NewBGPAS2PathSegmentSeq == NewBGPAS2PathSegment(BGPASPathSegmentSequence)

NewBGPAS4PathSegment(segType) ==
    [kind |-> "BGPAS4PathSegment", Type |-> segType, Length |-> 0,
     BGPASPathSegmentLen |-> 2, AS |-> << >>]

NewBGPAS4PathSegmentSeq == NewBGPAS4PathSegment(BGPASPathSegmentSequence)

ASWidth(ps) == IF ps.kind = "BGPAS2PathSegment" THEN 2 ELSE 4

BGPASPathSegment_TotalLen(ps) == ps.BGPASPathSegmentLen

RECURSIVE ASBytes(_, _)
ASBytes(as, width) ==
    IF as = << >> THEN << >>
    ELSE (IF width = 2 THEN Bytes16(Head(as)) ELSE Bytes32(Head(as))) \o ASBytes(Tail(as), width)

\* BGPAS2PathSegment.Encode / BGPAS4PathSegment.Encode into the buffer pkt:
\* type, count, then one AS of ps.AS after the other.  The first write that does
\* not fit panics, and the writes made before it stay in the caller's buffer.
BGPASPathSegment_Encode(ps, pkt) ==
    LET width == ASWidth(ps)
        base == SubSeq(<< U8(ps.Type), ps.Length >>, 1, IF Len(pkt) < 2 THEN Len(pkt) ELSE 2)
        room == IF Len(pkt) < 2 THEN 0 ELSE (Len(pkt) - 2) \div width
        written == IF room < Len(ps.AS) THEN room ELSE Len(ps.AS)
    IN  [err |-> IF Len(pkt) < 2 \/ written < Len(ps.AS) THEN Panic ELSE Nil,
         pkt |-> Copy(pkt, 0, base \o ASBytes(SubSeq(ps.AS, 1, written), width))]

\* the loop that reads ps.AS[i] from pkt[(i*width)+2:], here from the bytes after
\* type and count
ReadAS(pkt, width, n) ==
    [i \in 1..n |-> IF width = 2 THEN Uint16(From(pkt, (i - 1) * width))
                                 ELSE Uint32(From(pkt, (i - 1) * width))]

\* BGPAS2PathSegment.Decode / BGPAS4PathSegment.Decode on a fresh Sequence segment
BGPASPathSegment_Decode(ps, pkt) ==
    IF Len(pkt) <= 2
    THEN [err |-> BGPMessageError(BGPUpdateMsgError, BGPMalformedAttrList, << >>), ps |-> ps]
    ELSE LET hdr == [ps EXCEPT !.Type = At(pkt, 0), !.Length = At(pkt, 1)]
             w == ASWidth(ps)
         IN  IF Len(pkt) - 2 < hdr.Length * w
             THEN [err |-> BGPMessageError(BGPUpdateMsgError, BGPMalformedAttrList, << >>),
                   ps |-> hdr]
             ELSE [err |-> Nil,
                   ps |-> [hdr EXCEPT !.AS = ReadAS(From(pkt, 2), w, hdr.Length),
                                      !.BGPASPathSegmentLen = U8(U8(hdr.Length * w) + 2)]]

BGPASPathSegment_PrependAS(ps, as) ==
    IF ps.Length >= 255 THEN [ok |-> FALSE, ps |-> ps]
    ELSE [ok |-> TRUE,
          ps |-> [ps EXCEPT !.AS = << IF ASWidth(ps) = 2 THEN U16(as) ELSE as >> \o ps.AS,
                            !.Length = U8(ps.Length + 1),
                            !.BGPASPathSegmentLen = U16(ps.BGPASPathSegmentLen + ASWidth(ps))]]

BGPASPathSegment_AppendAS(ps, as) ==
    IF ps.Length >= 255 THEN [ok |-> FALSE, ps |-> ps]
    ELSE [ok |-> TRUE,
          ps |-> [ps EXCEPT !.AS = Append(ps.AS, IF ASWidth(ps) = 2 THEN U16(as) ELSE as),
                            !.Length = U8(ps.Length + 1),
                            !.BGPASPathSegmentLen = U16(ps.BGPASPathSegmentLen + ASWidth(ps))]]

\* as > math.MaxUint16 on a uint32: a value held as a negative representative
\* stands for one of 2^31 .. 2^32-1
AboveMaxUint16(as) == as > 65535 \/ as < 0

\* BGPAS4PathSegment.CloneAsAS2PathSegment: the length is added in uint8
\* arithmetic, an AS above 65535 becomes AS_TRANS
BGPAS4PathSegment_CloneAsAS2PathSegment(ps) ==
    LET x == NewBGPAS2PathSegment(ps.Type)
    IN  [mappable |-> \A i \in 1..Len(ps.AS) : ~AboveMaxUint16(ps.AS[i]),
         ps |-> [x EXCEPT !.AS = [i \in 1..Len(ps.AS) |->
                                     IF AboveMaxUint16(ps.AS[i]) THEN BGPASTrans ELSE ps.AS[i]],
                          !.Length = ps.Length,
                          !.BGPASPathSegmentLen = U16(x.BGPASPathSegmentLen + U8(ps.Length * 2))]]

\* ------------------------------------------- path attributes: zero values

\* BGPPathAttrTypeToStructMap[code].New(), or &BGPPathAttrUnknown{}
ZeroAttr(kind) ==
    LET base == BGPPathAttrBase(0, 0, 0, 0)
    IN  CASE kind = "BGPPathAttrOrigin" -> [kind |-> kind, BGPPathAttrBase |-> base, Value |-> 0]
        [] kind = "BGPPathAttrASPath" ->
             [kind |-> kind, BGPPathAttrBase |-> base, Value |-> << >>, ASSize |-> 0]
        [] kind = "BGPPathAttrNextHop" -> [kind |-> kind, BGPPathAttrBase |-> base, Value |-> << >>]
        [] kind = "BGPPathAttrMultiExitDisc" -> [kind |-> kind, BGPPathAttrBase |-> base, Value |-> 0]
        [] kind = "BGPPathAttrLocalPref" -> [kind |-> kind, BGPPathAttrBase |-> base, Value |-> 0]
        [] kind = "BGPPathAttrAtomicAggregate" -> [kind |-> kind, BGPPathAttrBase |-> base]
        [] kind = "BGPPathAttrAggregator" ->
             [kind |-> kind, BGPPathAttrBase |-> base, AS |-> 0, IP |-> << >>]
        [] kind = "BGPPathAttrAS4Aggregator" ->
             [kind |-> kind, BGPPathAttrBase |-> base, AS |-> 0, IP |-> << >>]
        [] kind = "BGPPathAttrOriginatorId" -> [kind |-> kind, BGPPathAttrBase |-> base, Value |-> << >>]
        [] kind = "BGPPathAttrClusterList" -> [kind |-> kind, BGPPathAttrBase |-> base, Value |-> << >>]
        [] kind = "BGPPathAttrMPReachNLRI" ->
             [kind |-> kind, BGPPathAttrBase |-> base, AFI |-> 0, SAFI |-> 0, Length |-> 0,
              NextHop |-> << >>, Reserved |-> 0, NLRI |-> << >>]
        [] kind = "BGPPathAttrMPUnreachNLRI" ->
             [kind |-> kind, BGPPathAttrBase |-> base, AFI |-> 0, SAFI |-> 0, NLRI |-> << >>]
        [] kind = "BGPPathAttrAS4Path" -> [kind |-> kind, BGPPathAttrBase |-> base, Value |-> << >>]
        [] OTHER -> [kind |-> "BGPPathAttrUnknown", BGPPathAttrBase |-> base, Value |-> << >>]

BGPPathAttrTypeToStructMap ==
    (BGPPathAttrTypeOrigin :> "BGPPathAttrOrigin") @@
    (BGPPathAttrTypeASPath :> "BGPPathAttrASPath") @@
    (BGPPathAttrTypeNextHop :> "BGPPathAttrNextHop") @@
    (BGPPathAttrTypeMultiExitDisc :> "BGPPathAttrMultiExitDisc") @@
    (BGPPathAttrTypeLocalPref :> "BGPPathAttrLocalPref") @@
    (BGPPathAttrTypeAtomicAggregate :> "BGPPathAttrAtomicAggregate") @@
    (BGPPathAttrTypeAggregator :> "BGPPathAttrAggregator") @@
    (BGPPathAttrTypeOriginatorId :> "BGPPathAttrOriginatorId") @@
    (BGPPathAttrTypeClusterList :> "BGPPathAttrClusterList") @@
    (BGPPathAttrTypeMPReachNLRI :> "BGPPathAttrMPReachNLRI") @@
    (BGPPathAttrTypeMPUnreachNLRI :> "BGPPathAttrMPUnreachNLRI") @@
    (BGPPathAttrTypeAS4Path :> "BGPPathAttrAS4Path") @@
    (BGPPathAttrTypeAS4Aggregator :> "BGPPathAttrAS4Aggregator")

\* BGPGetPathAttr: the caller guards len(pkt) >= 2 (pkt[1] panics otherwise)
BGPGetPathAttr(pkt) ==
    IF At(pkt, 1) \in DOMAIN BGPPathAttrTypeToStructMap
    THEN ZeroAttr(BGPPathAttrTypeToStructMap[At(pkt, 1)])
    ELSE ZeroAttr("BGPPathAttrUnknown")

BGPPathAttr_TotalLen(pa) == BGPPathAttrBase_TotalLen(pa.BGPPathAttrBase)
BGPPathAttr_GetCode(pa) == pa.BGPPathAttrBase.Code

\* ------------------------------------------------ path attributes: Decode

BGPPathAttrOrigin_Decode(o, pkt) ==
    LET after(b) ==
        LET pa == [o EXCEPT !.BGPPathAttrBase = b.pa]
        IN  IF b.err # Nil THEN [err |-> b.err, pa |-> pa]
            ELSE IF b.pa.BGPPathAttrLen >= Len(pkt) THEN [err |-> Panic, pa |-> pa]
            ELSE LET v == [pa EXCEPT !.Value = At(pkt, b.pa.BGPPathAttrLen)]
                 IN  IF v.Value >= BGPPathAttrOriginMax
                     THEN [err |-> AttrError(BGPMalformedAttrList, pkt, b.pa), pa |-> v]
                     ELSE [err |-> Nil, pa |-> v]
    IN  after(BGPPathAttrBase_Decode(pkt))

\* the segment loop of BGPPathAttrASPath.Decode and BGPPathAttrAS4Path.Decode;
\* a segment whose TotalLen is 0 leaves ptr unchanged and the loop never ends
RECURSIVE ASPath_loop(_, _, _, _, _)
ASPath_loop(pkt, width, total, ptr, value) ==
    IF ptr < total
    THEN LET seg == BGPASPathSegment_Decode(
                        IF width = 4 THEN NewBGPAS4PathSegmentSeq ELSE NewBGPAS2PathSegmentSeq,
                        From(pkt, ptr))
             next == ptr + BGPASPathSegment_TotalLen(seg.ps)
         IN  IF seg.err # Nil THEN [err |-> Nil, value |-> value, segErr |-> seg.err]
             ELSE IF next > total
             THEN [err |-> BGPMessageError(BGPUpdateMsgError, BGPAttrLenError, pkt),
                   value |-> value, segErr |-> Nil]
             ELSE IF next = ptr THEN [err |-> Diverge, value |-> value, segErr |-> Nil]
             ELSE ASPath_loop(pkt, width, total, next, Append(value, seg.ps))
    ELSE IF ptr # total
    THEN [err |-> BGPMessageError(BGPUpdateMsgError, BGPAttrLenError, pkt),
          value |-> value, segErr |-> Nil]
    ELSE [err |-> Nil, value |-> value, segErr |-> Nil]

\* "segErr" is the error a segment Decode returned when the attribute returned nil
BGPPathAttrASPath_Decode(as, pkt, data) ==
    LET after(b) ==
        LET pa == [as EXCEPT !.BGPPathAttrBase = b.pa]
        IN  IF b.err # Nil THEN [err |-> b.err, pa |-> pa, segErr |-> Nil]
            ELSE LET r == ASPath_loop(pkt, IF data.ASSize = 4 THEN 4 ELSE 2,
                                      BGPPathAttrBase_TotalLen(b.pa), b.pa.BGPPathAttrLen, << >>)
                 IN  [err |-> r.err, segErr |-> r.segErr,
                      pa |-> [pa EXCEPT !.Value = r.value, !.ASSize = data.ASSize]]
    IN  after(BGPPathAttrBase_Decode(pkt))

BGPPathAttrAS4Path_Decode(as, pkt) ==
    LET after(b) ==
        LET pa == [as EXCEPT !.BGPPathAttrBase = b.pa]
        IN  IF b.err # Nil THEN [err |-> b.err, pa |-> pa, segErr |-> Nil]
            ELSE LET r == ASPath_loop(pkt, 4, BGPPathAttrBase_TotalLen(b.pa),
                                      b.pa.BGPPathAttrLen, << >>)
                 IN  [err |-> r.err, segErr |-> r.segErr, pa |-> [pa EXCEPT !.Value = r.value]]
    IN  after(BGPPathAttrBase_Decode(pkt))

\* make([]byte, n); copy(.., pkt[lo:hi]) with lo, hi computed in uint16
CopyOut(pkt, lo, hi, n) ==
    IF lo > hi \/ hi > Len(pkt) THEN [err |-> Panic, bytes |-> Zeros(n)]
    ELSE [err |-> Nil, bytes |-> Copy(Zeros(n), 0, Slice(pkt, lo, hi))]

\* BGPPathAttrNextHop.Decode, BGPPathAttrOriginatorId.Decode, BGPPathAttrUnknown.Decode
BGPPathAttrBytes_Decode(n, pkt) ==
    LET after(b) ==
        LET pa == [n EXCEPT !.BGPPathAttrBase = b.pa]
        IN  IF b.err # Nil THEN [err |-> b.err, pa |-> pa]
            ELSE LET c == CopyOut(pkt, b.pa.BGPPathAttrLen,
                                  U16(b.pa.BGPPathAttrLen + b.pa.Length), b.pa.Length)
                 IN  [err |-> c.err, pa |-> [pa EXCEPT !.Value = c.bytes]]
    IN  after(BGPPathAttrBase_Decode(pkt))

\* BGPPathAttrMultiExitDisc.Decode, BGPPathAttrLocalPref.Decode
BGPPathAttrUint32_Decode(m, pkt) ==
    LET after(b) ==
        LET pa == [m EXCEPT !.BGPPathAttrBase = b.pa]
            lo == b.pa.BGPPathAttrLen
            hi == U16(b.pa.BGPPathAttrLen + b.pa.Length)
        IN  IF b.err # Nil THEN [err |-> b.err, pa |-> pa]
            ELSE IF lo > hi \/ hi > Len(pkt) \/ hi - lo < 4 THEN [err |-> Panic, pa |-> pa]
            ELSE [err |-> Nil, pa |-> [pa EXCEPT !.Value = Uint32(Slice(pkt, lo, hi))]]
    IN  after(BGPPathAttrBase_Decode(pkt))

BGPPathAttrAtomicAggregate_Decode(a, pkt) ==
    LET after(b) ==
            [err |-> b.err, pa |-> [a EXCEPT !.BGPPathAttrBase = b.pa]]
    IN  after(BGPPathAttrBase_Decode(pkt))

\* BGPPathAttrAggregator.Decode (asLen = 2), BGPPathAttrAS4Aggregator.Decode (asLen = 4)
BGPPathAttrAggregator_Decode(a, pkt, asLen) ==
    LET after(b) ==
        LET pa == [a EXCEPT !.BGPPathAttrBase = b.pa]
            at == b.pa.BGPPathAttrLen
        IN  IF b.err # Nil THEN [err |-> b.err, pa |-> pa]
            ELSE IF at + asLen > Len(pkt) THEN [err |-> Panic, pa |-> pa]
            ELSE LET as == IF asLen = 2 THEN Uint16(Slice(pkt, at, at + 2))
                           ELSE Uint32(Slice(pkt, at, at + 4))
                 IN  IF at + asLen + 4 > Len(pkt)
                     THEN [err |-> Panic, pa |-> [pa EXCEPT !.AS = as, !.IP = Zeros(4)]]
                     ELSE [err |-> Nil,
                           pa |-> [pa EXCEPT !.AS = as,
                                             !.IP = Slice(pkt, at + asLen, at + asLen + 4)]]
    IN  after(BGPPathAttrBase_Decode(pkt))

RECURSIVE ClusterList_read(_, _, _, _)
ClusterList_read(pkt, at, n, i) ==
    IF i >= n THEN [err |-> Nil, value |-> << >>]
    ELSE LET lo == U16(at + 4 * i)
             hi == U16(U16(at + 4 * i) + 4)
         IN  IF lo > hi \/ hi > Len(pkt) THEN [err |-> Panic, value |-> Zeros(n - i)]
             ELSE LET rest == ClusterList_read(pkt, at, n, i + 1)
                  IN  [err |-> rest.err, value |-> << Uint32(Slice(pkt, lo, hi)) >> \o rest.value]

BGPPathAttrClusterList_Decode(c, pkt) ==
    LET after(b) ==
        LET pa == [c EXCEPT !.BGPPathAttrBase = b.pa]
        IN  IF b.err # Nil THEN [err |-> b.err, pa |-> pa]
            ELSE LET r == ClusterList_read(pkt, b.pa.BGPPathAttrLen, b.pa.Length \div 4, 0)
                 IN  [err |-> r.err, pa |-> [pa EXCEPT !.Value = r.value]]
    IN  after(BGPPathAttrBase_Decode(pkt))

\* the NLRI loop of BGPPathAttrMPReachNLRI.Decode / BGPPathAttrMPUnreachNLRI.Decode
RECURSIVE MPNLRI_loop(_, _, _, _)
MPNLRI_loop(pkt, idx, total, nlri) ==
    IF idx < total
    THEN IF idx >= Len(pkt) THEN [err |-> Panic, nlri |-> nlri]
         ELSE LET bytes == U8(At(pkt, idx) + 7) \div 8
              IN  IF idx + 1 + bytes > Len(pkt) THEN [err |-> Panic, nlri |-> nlri]
                  ELSE MPNLRI_loop(pkt, idx + 1 + bytes, total,
                                   Append(nlri, Slice(pkt, idx + 1, idx + 1 + bytes)))
    ELSE [err |-> Nil, nlri |-> nlri]

\* the fields are assigned one statement at a time: a panic keeps those already assigned
BGPPathAttrMPReachNLRI_Decode(r, pkt) ==
    LET after(b) ==
        LET pa == [r EXCEPT !.BGPPathAttrBase = b.pa]
            idx == b.pa.BGPPathAttrLen
            length == At(pkt, idx + 3)
            hop == idx + 3
            afi == [pa EXCEPT !.AFI = Uint16(Slice(pkt, idx, idx + 2))]
            safi == [afi EXCEPT !.SAFI = At(pkt, idx + 2)]
            made == [safi EXCEPT !.Length = length, !.NextHop = Zeros(length)]
            copied == [made EXCEPT !.NextHop = Slice(pkt, hop, hop + length)]
        IN  IF b.err # Nil THEN [err |-> b.err, pa |-> pa]
            ELSE IF idx + 2 > Len(pkt) THEN [err |-> Panic, pa |-> pa]
            ELSE IF idx + 2 >= Len(pkt) THEN [err |-> Panic, pa |-> afi]
            ELSE IF idx + 3 >= Len(pkt) THEN [err |-> Panic, pa |-> safi]
            ELSE IF hop + length > Len(pkt) THEN [err |-> Panic, pa |-> made]
            ELSE IF hop + length >= Len(pkt) THEN [err |-> Panic, pa |-> copied]
            ELSE LET n == MPNLRI_loop(pkt, hop + length + 1,
                                      BGPPathAttrBase_TotalLen(b.pa), << >>)
                 IN  [err |-> n.err,
                      pa |-> [copied EXCEPT !.Reserved = At(pkt, hop + length),
                                            !.NLRI = n.nlri]]
    IN  after(BGPPathAttrBase_Decode(pkt))

BGPPathAttrMPUnreachNLRI_Decode(u, pkt) ==
    LET after(b) ==
        LET pa == [u EXCEPT !.BGPPathAttrBase = b.pa]
            idx == b.pa.BGPPathAttrLen
            afi == [pa EXCEPT !.AFI = Uint16(Slice(pkt, idx, idx + 2))]
        IN  IF b.err # Nil THEN [err |-> b.err, pa |-> pa]
            ELSE IF idx + 2 > Len(pkt) THEN [err |-> Panic, pa |-> pa]
            ELSE IF idx + 2 >= Len(pkt) THEN [err |-> Panic, pa |-> afi]
            ELSE LET n == MPNLRI_loop(pkt, idx + 2, BGPPathAttrBase_TotalLen(b.pa), << >>)
                 IN  [err |-> n.err,
                      pa |-> [afi EXCEPT !.SAFI = At(pkt, idx + 2), !.NLRI = n.nlri]]
    IN  after(BGPPathAttrBase_Decode(pkt))

\* pa.Decode(pkt, data) through the BGPPathAttr interface
BGPPathAttr_Decode(pa, pkt, data) ==
    CASE pa.kind = "BGPPathAttrOrigin" -> BGPPathAttrOrigin_Decode(pa, pkt)
      [] pa.kind = "BGPPathAttrASPath" -> BGPPathAttrASPath_Decode(pa, pkt, data)
      [] pa.kind = "BGPPathAttrAS4Path" -> BGPPathAttrAS4Path_Decode(pa, pkt)
      [] pa.kind \in {"BGPPathAttrNextHop", "BGPPathAttrOriginatorId", "BGPPathAttrUnknown"} ->
            BGPPathAttrBytes_Decode(pa, pkt)
      [] pa.kind \in {"BGPPathAttrMultiExitDisc", "BGPPathAttrLocalPref"} ->
            BGPPathAttrUint32_Decode(pa, pkt)
      [] pa.kind = "BGPPathAttrAtomicAggregate" -> BGPPathAttrAtomicAggregate_Decode(pa, pkt)
      [] pa.kind = "BGPPathAttrAggregator" -> BGPPathAttrAggregator_Decode(pa, pkt, 2)
      [] pa.kind = "BGPPathAttrAS4Aggregator" -> BGPPathAttrAggregator_Decode(pa, pkt, 4)
      [] pa.kind = "BGPPathAttrClusterList" -> BGPPathAttrClusterList_Decode(pa, pkt)
      [] pa.kind = "BGPPathAttrMPReachNLRI" -> BGPPathAttrMPReachNLRI_Decode(pa, pkt)
      [] pa.kind = "BGPPathAttrMPUnreachNLRI" -> BGPPathAttrMPUnreachNLRI_Decode(pa, pkt)

\* ------------------------------------------------ path attributes: Encode

\* pkt[at] = b, binary.BigEndian.PutUintNN(pkt[at:], v): all bytes must fit
Put(r, at, bytes) ==
    IF r.err # Nil THEN r
    ELSE IF at + Len(bytes) > Len(r.pkt) THEN [err |-> Panic, pkt |-> << >>]
    ELSE [err |-> Nil, pkt |-> Copy(r.pkt, at, bytes)]

\* copy(pkt[at:], src): only the slice expression can panic
CopyTo(r, at, src) ==
    IF r.err # Nil THEN r
    ELSE IF at > Len(r.pkt) THEN [err |-> Panic, pkt |-> << >>]
    ELSE [err |-> Nil, pkt |-> Copy(r.pkt, at, src)]

BGPPathAttrOrigin_Encode(o) ==
    Put(BGPPathAttrBase_Encode(o.BGPPathAttrBase), o.BGPPathAttrBase.BGPPathAttrLen, << U8(o.Value) >>)

\* the segment loop of BGPPathAttrASPath.Encode and BGPPathAttrAS4Path.Encode
RECURSIVE ASPath_encodeLoop(_, _, _)
ASPath_encodeLoop(r, length, value) ==
    IF r.err # Nil \/ value = << >> THEN r
    ELSE IF length > Len(r.pkt) THEN [err |-> Panic, pkt |-> << >>]
    ELSE LET seg == BGPASPathSegment_Encode(Head(value), From(r.pkt, length))
         IN  IF seg.err # Nil THEN [err |-> seg.err, pkt |-> << >>]
             ELSE ASPath_encodeLoop([err |-> Nil, pkt |-> Copy(r.pkt, length, seg.pkt)],
                                    U16(length + BGPASPathSegment_TotalLen(Head(value))),
                                    Tail(value))

BGPPathAttrASPath_Encode(as) ==
    ASPath_encodeLoop(BGPPathAttrBase_Encode(as.BGPPathAttrBase),
                      as.BGPPathAttrBase.BGPPathAttrLen, as.Value)

BGPPathAttrNextHop_Encode(n) ==
    LET from == Len(n.Value) - n.BGPPathAttrBase.Length
    IN  IF from < 0 \/ from > Len(n.Value) THEN [err |-> Panic, pkt |-> << >>]
        ELSE CopyTo(BGPPathAttrBase_Encode(n.BGPPathAttrBase),
                    n.BGPPathAttrBase.BGPPathAttrLen, From(n.Value, from))

\* BGPPathAttrMultiExitDisc.Encode, BGPPathAttrLocalPref.Encode
BGPPathAttrUint32_Encode(m) ==
    Put(BGPPathAttrBase_Encode(m.BGPPathAttrBase), m.BGPPathAttrBase.BGPPathAttrLen, Bytes32(m.Value))

\* BGPPathAttrAggregator.Encode (asLen = 2), BGPPathAttrAS4Aggregator.Encode (asLen = 4);
\* the offset of the IP is BGPPathAttrLen + asLen in uint16 arithmetic
BGPPathAttrAggregator_Encode(a, asLen) ==
    CopyTo(Put(BGPPathAttrBase_Encode(a.BGPPathAttrBase), a.BGPPathAttrBase.BGPPathAttrLen,
               IF asLen = 2 THEN Bytes16(a.AS) ELSE Bytes32(a.AS)),
           U16(a.BGPPathAttrBase.BGPPathAttrLen + asLen), a.IP)

\* BGPPathAttrOriginatorId.Encode, BGPPathAttrUnknown.Encode
BGPPathAttrBytes_Encode(o) ==
    CopyTo(BGPPathAttrBase_Encode(o.BGPPathAttrBase), o.BGPPathAttrBase.BGPPathAttrLen, o.Value)

\* the loop of BGPPathAttrClusterList.Encode: i and its bound uint16(len(c.Value)) are uint16
RECURSIVE ClusterList_write(_, _, _, _)
ClusterList_write(r, at, value, i) ==
    IF r.err # Nil \/ i >= U16(Len(value)) THEN r
    ELSE ClusterList_write(Put(r, U16(at + 4 * i), Bytes32(value[i + 1])), at, value, i + 1)

BGPPathAttrClusterList_Encode(c) ==
    ClusterList_write(BGPPathAttrBase_Encode(c.BGPPathAttrBase),
                      c.BGPPathAttrBase.BGPPathAttrLen, c.Value, 0)

RECURSIVE MPNLRI_write(_, _, _)
MPNLRI_write(r, idx, nlri) ==
    IF r.err # Nil \/ nlri = << >> THEN r
    ELSE MPNLRI_write(CopyTo(r, idx, Head(nlri)), idx + Len(Head(nlri)), Tail(nlri))

\* the next hop is copied over the byte that holds its length
BGPPathAttrMPReachNLRI_Encode(r) ==
    LET idx == r.BGPPathAttrBase.BGPPathAttrLen
        hop == idx + 3
    IN  MPNLRI_write(
            Put(CopyTo(Put(Put(BGPPathAttrBase_Encode(r.BGPPathAttrBase),
                               idx, Bytes16(r.AFI) \o << U8(r.SAFI) >>),
                           hop, << U8(Len(r.NextHop)) >>),
                       hop, r.NextHop),
                hop + Len(r.NextHop), << 0 >>),
            hop + Len(r.NextHop) + 1, r.NLRI)

BGPPathAttrMPUnreachNLRI_Encode(u) ==
    LET idx == u.BGPPathAttrBase.BGPPathAttrLen
    IN  MPNLRI_write(Put(BGPPathAttrBase_Encode(u.BGPPathAttrBase),
                         idx, Bytes16(u.AFI) \o << u.SAFI >>),
                     idx + 3, u.NLRI)

\* pa.Encode() through the BGPPathAttr interface
BGPPathAttr_Encode(pa) ==
    CASE pa.kind = "BGPPathAttrOrigin" -> BGPPathAttrOrigin_Encode(pa)
      [] pa.kind \in {"BGPPathAttrASPath", "BGPPathAttrAS4Path"} -> BGPPathAttrASPath_Encode(pa)
      [] pa.kind = "BGPPathAttrNextHop" -> BGPPathAttrNextHop_Encode(pa)
      [] pa.kind \in {"BGPPathAttrMultiExitDisc", "BGPPathAttrLocalPref"} ->
            BGPPathAttrUint32_Encode(pa)
      [] pa.kind = "BGPPathAttrAtomicAggregate" -> BGPPathAttrBase_Encode(pa.BGPPathAttrBase)
      [] pa.kind = "BGPPathAttrAggregator" -> BGPPathAttrAggregator_Encode(pa, 2)
      [] pa.kind = "BGPPathAttrAS4Aggregator" -> BGPPathAttrAggregator_Encode(pa, 4)
      [] pa.kind \in {"BGPPathAttrOriginatorId", "BGPPathAttrUnknown"} -> BGPPathAttrBytes_Encode(pa)
      [] pa.kind = "BGPPathAttrClusterList" -> BGPPathAttrClusterList_Encode(pa)
      [] pa.kind = "BGPPathAttrMPReachNLRI" -> BGPPathAttrMPReachNLRI_Encode(pa)
      [] pa.kind = "BGPPathAttrMPUnreachNLRI" -> BGPPathAttrMPUnreachNLRI_Encode(pa)

\* ----------------------------------------------------------------- UPDATE

\* &BGPUpdate{}
BGPUpdate(wdRoutes, pa, nlri) ==
    [kind |-> "BGPUpdate", WithdrawnRoutesLen |-> 0, WithdrawnRoutes |-> wdRoutes,
     TotalPathAttrLen |-> 0, PathAttributes |-> pa, NLRI |-> nlri]

RECURSIVE EncodeAll(_, _)
\* for _, x := range list { bytes, err := x.Encode(); pkt = append(pkt, bytes...) }
EncodeAll(list, isAttr) ==
    IF list = << >> THEN [err |-> Nil, pkt |-> << >>]
    ELSE LET join(h, t) ==
                 IF h.err # Nil THEN [err |-> h.err, pkt |-> << >>]
                 ELSE IF t.err # Nil THEN [err |-> t.err, pkt |-> << >>]
                 ELSE [err |-> Nil, pkt |-> h.pkt \o t.pkt]
         IN  join(IF isAttr THEN BGPPathAttr_Encode(Head(list)) ELSE NLRI_Encode(Head(list)),
                  EncodeAll(Tail(list), isAttr))

BGPUpdate_Encode(msg) ==
    LET pack(wd, pa, nlri) ==
            IF wd.err # Nil THEN [err |-> wd.err, pkt |-> << >>]
            ELSE IF pa.err # Nil THEN [err |-> pa.err, pkt |-> << >>]
            ELSE IF nlri.err # Nil THEN [err |-> nlri.err, pkt |-> << >>]
            ELSE [err |-> Nil,
                  pkt |-> Bytes16(U16(Len(wd.pkt))) \o wd.pkt \o
                          Bytes16(U16(Len(pa.pkt))) \o pa.pkt \o nlri.pkt]
    IN  pack(EncodeAll(msg.WithdrawnRoutes, FALSE),
             EncodeAll(msg.PathAttributes, TRUE),
             EncodeAll(msg.NLRI, FALSE))

checkPathAttributes_dup(pathAttrs) ==
    \E i, j \in 1..Len(pathAttrs) :
        i < j /\ BGPPathAttr_GetCode(pathAttrs[i]) = BGPPathAttr_GetCode(pathAttrs[j])

checkPathAttributes_missing(pathAttrs) ==
    { i \in 1..Len(BGPPathAttrWellKnownMandatory) :
        \A j \in 1..Len(pathAttrs) :
            BGPPathAttr_GetCode(pathAttrs[j]) # BGPPathAttrWellKnownMandatory[i] }

\* checkPathAttributes; BGPUpdate.Decode does not call it
checkPathAttributes(pathAttrs) ==
    IF checkPathAttributes_dup(pathAttrs)
    THEN BGPMessageError(BGPUpdateMsgError, BGPMalformedAttrList, << >>)
    ELSE IF checkPathAttributes_missing(pathAttrs) # {}
    THEN BGPMessageError(BGPUpdateMsgError, BGPMissingWellKnownAttr,
             << BGPPathAttrWellKnownMandatory[
                    CHOOSE i \in checkPathAttributes_missing(pathAttrs) :
                        \A k \in checkPathAttributes_missing(pathAttrs) : i <= k] >>)
    ELSE Nil

\* the path-attribute loop of BGPUpdate.Decode: the error of pa.Decode is dropped
\* (kept here in "nested" for the record), length is a uint32 that wraps
RECURSIVE BGPUpdate_attrLoop(_, _, _, _, _, _)
BGPUpdate_attrLoop(pkt, data, ptr, length, attrs, nested) ==
    IF length # 0
    THEN IF ptr > Len(pkt) \/ Len(pkt) - ptr < 2
         THEN [err |-> Panic, ptr |-> ptr, attrs |-> attrs, nested |-> nested]
         ELSE LET step(d, seen, total) ==
                      IF d.err \in {Panic, Diverge}
                      THEN [err |-> d.err, ptr |-> ptr, attrs |-> attrs, nested |-> nested \o seen]
                      ELSE IF total = 0
                      THEN [err |-> Diverge, ptr |-> ptr, attrs |-> Append(attrs, d.pa),
                            nested |-> nested \o seen]
                      ELSE BGPUpdate_attrLoop(pkt, data, ptr + total,
                                              U32(length - total),
                                              Append(attrs, d.pa), nested \o seen)
                  decoded(d) ==
                      step(d,
                           (IF d.err # Nil THEN << d.err >> ELSE << >>) \o
                           (IF "segErr" \in DOMAIN d /\ d.segErr # Nil THEN << d.segErr >> ELSE << >>),
                           BGPPathAttr_TotalLen(d.pa))
              IN  decoded(BGPPathAttr_Decode(BGPGetPathAttr(From(pkt, ptr)), From(pkt, ptr), data))
    ELSE [err |-> Nil, ptr |-> ptr, attrs |-> attrs, nested |-> nested]

\* BGPUpdate.Decode on &BGPUpdate{}; "nested" lists the errors the nested decode
\* calls returned, in order
BGPUpdate_Decode(header, pkt, data) ==
    LET zero == [kind |-> "BGPUpdate", WithdrawnRoutesLen |-> 0, WithdrawnRoutes |-> << >>,
                 TotalPathAttrLen |-> 0, PathAttributes |-> << >>, NLRI |-> << >>]
    IN  IF Len(pkt) < 2 THEN [err |-> Panic, body |-> zero, nested |-> << >>]
        ELSE
        LET wrl == Uint16(Slice(pkt, 0, 2))
            m1 == [zero EXCEPT !.WithdrawnRoutesLen = wrl]
        IN  IF wrl + 23 > header.Length
            THEN [err |-> BGPMessageError(BGPUpdateMsgError, BGPMalformedAttrList, << >>),
                  body |-> m1, nested |-> << >>]
            ELSE
            LET announced(m4, pa, nl) ==
                    IF nl.err = Panic
                    THEN [err |-> Panic, body |-> [m4 EXCEPT !.NLRI = nl.list],
                          nested |-> pa.nested]
                    ELSE [err |-> Nil, body |-> [m4 EXCEPT !.NLRI = nl.list],
                          nested |-> pa.nested \o
                                     (IF nl.err # Nil THEN << nl.err >> ELSE << >>)]
                attributes(m4, tpal, pa) ==
                    IF pa.err # Nil THEN [err |-> pa.err, body |-> m4, nested |-> pa.nested]
                    ELSE IF pa.ptr > Len(pkt)
                    THEN [err |-> Panic, body |-> m4, nested |-> pa.nested]
                    ELSE announced(m4, pa,
                                   BGPUpdate_decodeIPPrefix(From(pkt, pa.ptr), << >>,
                                       header.Length - 23 - wrl - tpal, data))
                pathAttrLen(m3, ptr, tpal) ==
                    IF tpal + wrl + 23 > header.Length
                    THEN [err |-> BGPMessageError(BGPUpdateMsgError, BGPMalformedAttrList, << >>),
                          body |-> m3, nested |-> << >>]
                    ELSE LET loop(pa) == attributes([m3 EXCEPT !.PathAttributes = pa.attrs], tpal, pa)
                         IN  loop(BGPUpdate_attrLoop(pkt, data, ptr + 2, tpal, << >>, << >>))
                withdrawn(wd, m2, ptr) ==
                    IF wd.err = Panic THEN [err |-> Panic, body |-> m2, nested |-> << >>]
                    ELSE IF wd.err # Nil THEN [err |-> Nil, body |-> m2, nested |-> << wd.err >>]
                    ELSE IF ptr + 2 > Len(pkt) THEN [err |-> Panic, body |-> m2, nested |-> << >>]
                    ELSE LET read(tpal) == pathAttrLen([m2 EXCEPT !.TotalPathAttrLen = tpal], ptr, tpal)
                         IN  read(Uint16(Slice(pkt, ptr, ptr + 2)))
                decoded(wd) == withdrawn(wd, [m1 EXCEPT !.WithdrawnRoutes = wd.list], 2 + wd.ptr)
            IN  decoded(BGPUpdate_decodeIPPrefix(From(pkt, 2), << >>, wrl, data))

\* ------------------------------------------------ NOTIFICATION, KEEPALIVE

BGPNotification(errorCode, errorSubcode, data) ==
    [kind |-> "BGPNotification", ErrorCode |-> errorCode, ErrorSubcode |-> errorSubcode,
     Data |-> data]

BGPNotification_Encode(msg) ==
    [err |-> Nil, pkt |-> << msg.ErrorCode, msg.ErrorSubcode >> \o msg.Data]

\* on one byte ErrorCode is read before pkt[1] panics
BGPNotification_Decode(pkt) ==
    IF Len(pkt) < 1 THEN [err |-> Panic, body |-> BGPNotification(0, 0, << >>)]
    ELSE IF Len(pkt) < 2 THEN [err |-> Panic, body |-> BGPNotification(At(pkt, 0), 0, << >>)]
    ELSE [err |-> Nil, body |-> BGPNotification(At(pkt, 0), At(pkt, 1), From(pkt, 2))]

BGPKeepAlive == [kind |-> "BGPKeepAlive"]

BGPKeepAlive_Encode(msg) == [err |-> Nil, pkt |-> << >>]

BGPKeepAlive_Decode(pkt) == [err |-> Nil, body |-> BGPKeepAlive]

\* ------------------------------------------------------------------- OPEN

\* BGPOptParamTypeToStruct and BGPCapTypeToStruct hold one object per type for the
\* life of the process; GetOptParam and GetCapParam return pointers to them.  A
\* pointer to such an object is [ref |-> name]; "globals" maps the name to the
\* object's current fields.  Any other object is written in place.
GlobalsInit ==
    [BGPOptParamCapability |-> [kind |-> "BGPOptParamCapability", Type |-> 0, Len |-> 0, Value |-> << >>],
     BGPCapMPExt |-> [kind |-> "BGPCapMPExt", Type |-> 0, Len |-> 0, AFI |-> 0, Reserved |-> 0, SAFI |-> 0],
     BGPCapAS4Path |-> [kind |-> "BGPCapAS4Path", Type |-> 0, Len |-> 0, Value |-> 0],
     BGPCapAddPath |-> [kind |-> "BGPCapAddPath", Type |-> 0, Len |-> 0, Value |-> << >>]]

Ref(name) == [ref |-> name]
IsRef(p) == "ref" \in DOMAIN p
Deref(g, p) == IF IsRef(p) THEN g[p.ref] ELSE p

BGPCapTypeToStruct ==
    (BGPCapTypeMPExt :> "BGPCapMPExt") @@
    (BGPCapTypeAS4Path :> "BGPCapAS4Path") @@
    (BGPCapTypeAddPath :> "BGPCapAddPath")

BGPOptParamTypeToStruct == (BGPOptParamTypeCapability :> "BGPOptParamCapability")

NewBGPCapMPExt(afi, safi) ==
    [kind |-> "BGPCapMPExt", Type |-> BGPCapTypeMPExt, Len |-> 4, AFI |-> afi, Reserved |-> 0,
     SAFI |-> safi]

NewBGPCap4ByteASPath(as) ==
    [kind |-> "BGPCapAS4Path", Type |-> BGPCapTypeAS4Path, Len |-> 4, Value |-> as]

NewAddPathAFISAFI(afi, safi, flags) == [AFI |-> afi, SAFI |-> safi, Flags |-> flags]

\* the length of a new Add-Path capability is 2 with no entry in it
NewBGPCapAddPath(as) ==
    [kind |-> "BGPCapAddPath", Type |-> BGPCapTypeAddPath, Len |-> 2, Value |-> << >>]

\* BGPCapAddPath.AddAddPathAFISAFI: Len is a uint8
BGPCapAddPath_AddAddPathAFISAFI(msg, apAFISAFI) ==
    [msg EXCEPT !.Value = Append(@, apAFISAFI), !.Len = U8(@ + 4)]

\* BGPCapabilityBase.TotalLen, BGPOptParamBase.TotalLen: uint8
TLV_TotalLen(msg) == U8(msg.Len + 2)

\* BGPCapabilityBase.Decode, BGPOptParamBase.Decode
TLV_Decode(msg, pkt) ==
    IF Len(pkt) < 2
    THEN [err |-> BGPMessageError(BGPOpenMsgError, BGPUnspecific, << >>), msg |-> msg]
    ELSE LET m == [msg EXCEPT !.Type = At(pkt, 0), !.Len = At(pkt, 1)]
         IN  IF Len(pkt) < TLV_TotalLen(m)
             THEN [err |-> BGPMessageError(BGPUpdateMsgError, BGPUnspecific, << >>), msg |-> m]
             ELSE [err |-> Nil, msg |-> m]

\* the loop of BGPCapAddPath.Decode: entries are appended to the Value the object
\* already holds; offset is a uint8
RECURSIVE BGPCapAddPath_loop(_, _, _)
BGPCapAddPath_loop(msg, pkt, offset) ==
    IF offset < msg.Len
    THEN IF offset > Len(pkt) THEN [err |-> Panic, msg |-> msg]
         ELSE IF Len(pkt) - offset < 4
         THEN [err |-> BGPMessageError(BGPOpenMsgError, BGPUnspecific, << >>), msg |-> msg]
         ELSE IF offset + 4 > 255 THEN [err |-> Diverge, msg |-> msg]
         ELSE BGPCapAddPath_loop(
                  [msg EXCEPT !.Value = Append(@, [AFI |-> Uint16(From(pkt, offset)),
                                                   SAFI |-> At(pkt, offset + 2),
                                                   Flags |-> At(pkt, offset + 3)])],
                  pkt, offset + 4)
    ELSE [err |-> Nil, msg |-> msg]

\* capParam.Decode(pkt) on the object cap (a shared one keeps its earlier fields)
BGPCapability_Decode(cap, pkt) ==
    LET b == TLV_Decode(cap, pkt)
    IN  IF b.err # Nil THEN b
        ELSE CASE cap.kind = "BGPCapMPExt" ->
                    IF Len(pkt) < 4 THEN [err |-> Panic, msg |-> b.msg]
                    ELSE IF Len(pkt) < 6
                    THEN [err |-> Panic,
                          msg |-> [b.msg EXCEPT !.AFI = Uint16(From(pkt, 2)), !.Reserved = 0]]
                    ELSE [err |-> Nil,
                          msg |-> [b.msg EXCEPT !.AFI = Uint16(From(pkt, 2)), !.Reserved = 0,
                                                !.SAFI = At(pkt, 5)]]
               [] cap.kind = "BGPCapAS4Path" ->
                    IF Len(pkt) < 6 THEN [err |-> Panic, msg |-> b.msg]
                    ELSE [err |-> Nil, msg |-> [b.msg EXCEPT !.Value = Uint32(From(pkt, 2))]]
               [] cap.kind = "BGPCapAddPath" -> BGPCapAddPath_loop(b.msg, pkt, 2)
               [] OTHER -> [err |-> Nil, msg |-> [b.msg EXCEPT !.Value = Copy(@, 0, From(pkt, 2))]]

\* BGPOptParamCapability.GetCapParam: a pointer to the shared object of the
\* capability's type, or a new BGPCapUnknown
GetCapParam(pkt) ==
    IF At(pkt, 0) \in DOMAIN BGPCapTypeToStruct
    THEN Ref(BGPCapTypeToStruct[At(pkt, 0)])
    ELSE [kind |-> "BGPCapUnknown", Type |-> 0, Len |-> 0, Value |-> << >>]

\* the loop of BGPOptParamCapability.Decode; offset and paramsLen are uint8.  The
\* loop state repeats exactly when a capability's TotalLen is 0 or the offsets wrap
\* around to a state already visited: the loop then never ends.
RECURSIVE BGPOptParamCapability_loop(_, _, _, _, _, _)
BGPOptParamCapability_loop(g, value, pkt, offset, paramsLen, visited) ==
    IF paramsLen > 0
    THEN IF << offset, paramsLen >> \in visited THEN [err |-> Diverge, g |-> g, value |-> value]
         ELSE IF offset >= Len(pkt) THEN [err |-> Panic, g |-> g, value |-> value]
         ELSE LET p == GetCapParam(From(pkt, offset))
                  step(d, g2, obj) ==
                      IF d.err # Nil THEN [err |-> d.err, g |-> g2, value |-> value]
                      ELSE BGPOptParamCapability_loop(g2, Append(value, obj), pkt,
                               U8(offset + TLV_TotalLen(d.msg)),
                               U8(paramsLen - TLV_TotalLen(d.msg) + 256),
                               visited \cup {<< offset, paramsLen >>})
                  decoded(d) ==
                      step(d,
                           IF IsRef(p) THEN [g EXCEPT ![p.ref] = d.msg] ELSE g,
                           IF IsRef(p) THEN p ELSE d.msg)
              IN  decoded(BGPCapability_Decode(Deref(g, p), From(pkt, offset)))
    ELSE [err |-> Nil, g |-> g, value |-> value]

\* BGPOptParamCapability.Decode on the shared object; returns the globals as left
BGPOptParamCapability_Decode(g, pkt) ==
    LET looped(r) ==
            [err |-> r.err, g |-> [r.g EXCEPT !.BGPOptParamCapability.Value = r.value]]
        after(b, g1) ==
            IF b.err # Nil THEN [err |-> b.err, g |-> g1]
            ELSE looped(BGPOptParamCapability_loop(g1, << >>, pkt, 2, b.msg.Len, {}))
        base(b) == after(b, [g EXCEPT !.BGPOptParamCapability = b.msg])
    IN  base(TLV_Decode(g.BGPOptParamCapability, pkt))

\* BGPOpen.GetOptParam
GetOptParam(pkt) ==
    IF At(pkt, 0) \in DOMAIN BGPOptParamTypeToStruct
    THEN [err |-> Nil, optParam |-> Ref(BGPOptParamTypeToStruct[At(pkt, 0)])]
    ELSE [err |-> BGPMessageError(BGPOpenMsgError, BGPUnsupportedOptionalParam, << >>),
          optParam |-> [kind |-> "BGPOptParamUnknown", Type |-> 0, Len |-> 0, Value |-> << >>]]

\* the loop of BGPOpen.Decode
RECURSIVE BGPOpen_loop(_, _, _, _, _, _)
BGPOpen_loop(g, optParams, pkt, offset, paramsLen, visited) ==
    IF paramsLen > 0
    THEN IF << offset, paramsLen >> \in visited
         THEN [err |-> Diverge, g |-> g, optParams |-> optParams]
         ELSE IF offset >= Len(pkt) THEN [err |-> Panic, g |-> g, optParams |-> optParams]
         ELSE LET p == GetOptParam(From(pkt, offset))
              IN  IF p.err # Nil THEN [err |-> p.err, g |-> g, optParams |-> optParams]
                  ELSE LET step(d, total) ==
                               IF d.err # Nil THEN [err |-> d.err, g |-> d.g, optParams |-> optParams]
                               ELSE BGPOpen_loop(d.g, Append(optParams, p.optParam), pkt,
                                        U8(offset + total), U8(paramsLen - total + 256),
                                        visited \cup {<< offset, paramsLen >>})
                           decoded(d) == step(d, TLV_TotalLen(d.g.BGPOptParamCapability))
                       IN  decoded(BGPOptParamCapability_Decode(g, From(pkt, offset)))
    ELSE [err |-> Nil, g |-> g, optParams |-> optParams]

\* &BGPOpen{}
BGPOpenZero ==
    [kind |-> "BGPOpen", Version |-> 0, MyAS |-> 0, HoldTime |-> 0, BGPId |-> << >>,
     OptParamLen |-> 0, OptParams |-> << >>]

\* the five fixed fields of BGPOpen.Decode, assigned one after the other: on fewer
\* than 10 bytes the fields read before the panic stay in the body
BGPOpen_fixed(pkt) ==
    [err |-> IF Len(pkt) < 10 THEN Panic ELSE Nil,
     body |-> [BGPOpenZero EXCEPT
                  !.Version = IF Len(pkt) >= 1 THEN At(pkt, 0) ELSE @,
                  !.MyAS = IF Len(pkt) >= 3 THEN Uint16(Slice(pkt, 1, 3)) ELSE @,
                  !.HoldTime = IF Len(pkt) >= 5 THEN Uint16(Slice(pkt, 3, 5)) ELSE @,
                  !.BGPId = IF Len(pkt) >= 9 THEN Slice(pkt, 5, 9) ELSE @,
                  !.OptParamLen = IF Len(pkt) >= 10 THEN At(pkt, 9) ELSE @]]

\* BGPOpen.Decode on &BGPOpen{}, with no other decode running meanwhile
BGPOpen_Decode(g, pkt) ==
    LET m == BGPOpen_fixed(pkt).body
        looped(r) == [err |-> r.err, body |-> [m EXCEPT !.OptParams = r.optParams], g |-> r.g]
    IN  IF Len(pkt) < 10 THEN [err |-> Panic, body |-> m, g |-> g]
        ELSE looped(BGPOpen_loop(g, << >>, pkt, 10, m.OptParamLen, {}))

\* ---------------------------------------- OPEN decodes of concurrent sessions

\* Each peer session decodes on its own task and nothing locks the objects of the
\* dispatch maps.  A session's OPEN decode is here the statements of BGPOpen.Decode
\* and of the Decode methods it calls, in program order; one step runs the
\* statements up to and including the next read or write of a shared object,
\* and the steps of the sessions interleave.  A slice header is read and written
\* whole.
Sessions == {1, 2}

IdleSession ==
    [pc |-> "idle", pkt |-> << >>, body |-> BGPOpenZero, err |-> Nil,
     offset |-> 0, paramsLen |-> 0,     \* the loop of BGPOpen.Decode
     coff |-> 0, cparams |-> 0,         \* the loop of BGPOptParamCapability.Decode
     cap |-> [kind |-> "nil"],          \* capParam
     aoff |-> 0,                        \* the loop of BGPCapAddPath.Decode
     read |-> << >>,                    \* the slice an append has read
     start |-> GlobalsInit,             \* the shared objects when the decode began
     left |-> GlobalsInit,              \* the shared objects when it returned
     alone |-> TRUE]                    \* no other session has taken a step meanwhile

Running(s) == s.pc \notin {"idle", "done"}

\* msg.Decode(header, pkt, data) is called on the body bytes pkt: the fixed
\* fields touch nothing shared
Session_begin(g, pkt) ==
    LET f == BGPOpen_fixed(pkt)
    IN  [IdleSession EXCEPT !.pc = IF f.err # Nil THEN "done" ELSE "opt",
                            !.pkt = pkt, !.body = f.body, !.err = f.err,
                            !.offset = 10, !.paramsLen = f.body.OptParamLen,
                            !.start = g, !.left = g]

Session_goto(g, s, pc) == [g |-> g, s |-> [s EXCEPT !.pc = pc]]

Session_return(g, s, err) == [g |-> g, s |-> [s EXCEPT !.pc = "done", !.err = err, !.left = g]]

\* a write to *capParam: to the shared object, or to the BGPCapUnknown the
\* session has made
Session_setCap(g, s, obj, pc) ==
    IF IsRef(s.cap) THEN Session_goto([g EXCEPT ![s.cap.ref] = obj], s, pc)
    ELSE Session_goto(g, [s EXCEPT !.cap = obj], pc)

\* the next step of a running session s on the shared objects g
Session_step(g, s) ==
    LET opt == "BGPOptParamCapability"
        op == From(s.pkt, s.offset)         \* pkt[offset:] in BGPOpen.Decode
        cp == From(op, s.coff)              \* pkt[offset:] in BGPOptParamCapability.Decode
        cap == Deref(g, s.cap)
        short == BGPMessageError(BGPOpenMsgError, BGPUnspecific, << >>)
        tooLong == BGPMessageError(BGPUpdateMsgError, BGPUnspecific, << >>)
    IN  CASE s.pc = "opt" ->
                \* loop head, GetOptParam, BGPOptParamBase.Decode: msg.Type = pkt[0]
                IF s.paramsLen = 0 THEN Session_return(g, s, Nil)
                ELSE IF s.offset >= Len(s.pkt) THEN Session_return(g, s, Panic)
                ELSE IF GetOptParam(op).err # Nil THEN Session_return(g, s, GetOptParam(op).err)
                ELSE IF Len(op) < 2 THEN Session_return(g, s, short)
                ELSE Session_goto([g EXCEPT ![opt].Type = At(op, 0)], s, "optLen")
          [] s.pc = "optLen" ->
                Session_goto([g EXCEPT ![opt].Len = At(op, 1)], s, "optTotal")
          [] s.pc = "optTotal" ->
                IF Len(op) < TLV_TotalLen(g[opt]) THEN Session_return(g, s, tooLong)
                ELSE Session_goto(g, s, "optParams")
          [] s.pc = "optParams" ->
                \* paramsLen := msg.Len
                Session_goto(g, [s EXCEPT !.cparams = g[opt].Len], "optMake")
          [] s.pc = "optMake" ->
                \* msg.Value = make([]BGPCapability, 0)
                Session_goto([g EXCEPT ![opt].Value = << >>], [s EXCEPT !.coff = 2], "cap")
          [] s.pc = "cap" ->
                \* loop head, GetCapParam, BGPCapabilityBase.Decode: msg.Type = pkt[0]
                IF s.cparams = 0 THEN Session_goto(g, s, "optAppend")
                ELSE IF s.coff >= Len(op) THEN Session_return(g, s, Panic)
                ELSE IF Len(cp) < 2 THEN Session_return(g, [s EXCEPT !.cap = GetCapParam(cp)], short)
                ELSE Session_setCap(g, [s EXCEPT !.cap = GetCapParam(cp)],
                                    [Deref(g, GetCapParam(cp)) EXCEPT !.Type = At(cp, 0)], "capLen")
          [] s.pc = "capLen" ->
                Session_setCap(g, s, [cap EXCEPT !.Len = At(cp, 1)], "capTotal")
          [] s.pc = "capTotal" ->
                IF Len(cp) < TLV_TotalLen(cap) THEN Session_return(g, s, tooLong)
                ELSE CASE cap.kind = "BGPCapMPExt" -> Session_goto(g, s, "mpAFI")
                       [] cap.kind = "BGPCapAS4Path" -> Session_goto(g, s, "as4Value")
                       [] cap.kind = "BGPCapAddPath" -> Session_goto(g, [s EXCEPT !.aoff = 2], "apHead")
                       [] OTHER -> Session_setCap(g, s, [cap EXCEPT !.Value = Copy(@, 0, From(cp, 2))],
                                                  "capRead")
          [] s.pc = "mpAFI" ->
                IF Len(cp) < 4 THEN Session_return(g, s, Panic)
                ELSE Session_setCap(g, s, [cap EXCEPT !.AFI = Uint16(From(cp, 2))], "mpReserved")
          [] s.pc = "mpReserved" ->
                Session_setCap(g, s, [cap EXCEPT !.Reserved = 0], "mpSAFI")
          [] s.pc = "mpSAFI" ->
                IF Len(cp) < 6 THEN Session_return(g, s, Panic)
                ELSE Session_setCap(g, s, [cap EXCEPT !.SAFI = At(cp, 5)], "capRead")
          [] s.pc = "as4Value" ->
                IF Len(cp) < 6 THEN Session_return(g, s, Panic)
                ELSE Session_setCap(g, s, [cap EXCEPT !.Value = Uint32(From(cp, 2))], "capRead")
          [] s.pc = "apHead" ->
                \* for offset < msg.Len, AddPathAFISAFI.Decode(pkt[offset:])
                IF s.aoff >= cap.Len THEN Session_goto(g, s, "capRead")
                ELSE IF s.aoff > Len(cp) THEN Session_return(g, s, Panic)
                ELSE IF Len(cp) - s.aoff < 4 THEN Session_return(g, s, short)
                ELSE Session_goto(g, s, "apRead")
          [] s.pc = "apRead" ->
                \* msg.Value = append(msg.Value, addPathAFISAFI): the read
                Session_goto(g, [s EXCEPT !.read = cap.Value], "apWrite")
          [] s.pc = "apWrite" ->
                Session_setCap(g, [s EXCEPT !.read = << >>, !.aoff = U8(@ + 4)],
                               [cap EXCEPT !.Value =
                                   Append(s.read, [AFI |-> Uint16(From(cp, s.aoff)),
                                                   SAFI |-> At(cp, s.aoff + 2),
                                                   Flags |-> At(cp, s.aoff + 3)])],
                               "apHead")
          [] s.pc = "capRead" ->
                \* msg.Value = append(msg.Value, capParam): the read
                Session_goto(g, [s EXCEPT !.read = g[opt].Value], "capWrite")
          [] s.pc = "capWrite" ->
                Session_goto([g EXCEPT ![opt].Value = Append(s.read, s.cap)],
                             [s EXCEPT !.read = << >>], "capOff")
          [] s.pc = "capOff" ->
                \* offset += capParam.TotalLen()
                Session_goto(g, [s EXCEPT !.coff = U8(@ + TLV_TotalLen(cap))], "capParams")
          [] s.pc = "capParams" ->
                \* paramsLen -= capParam.TotalLen()
                Session_goto(g, [s EXCEPT !.cparams = U8(@ - TLV_TotalLen(cap) + 256)], "cap")
          [] s.pc = "optAppend" ->
                \* msg.OptParams = append(msg.OptParams, optParam); offset += optParam.TotalLen()
                Session_goto(g, [s EXCEPT !.body.OptParams = Append(@, Ref(opt)),
                                          !.offset = U8(@ + TLV_TotalLen(g[opt]))], "optParamsLen")
          [] s.pc = "optParamsLen" ->
                \* paramsLen -= optParam.TotalLen()
                Session_goto(g, [s EXCEPT !.paramsLen = U8(@ - TLV_TotalLen(g[opt]) + 256)], "opt")

\* BGPCapabilityBase.Encode
BGPCapabilityBase_Encode(msg) ==
    Put([err |-> Nil, pkt |-> Zeros(TLV_TotalLen(msg))], 0, << U8(msg.Type), msg.Len >>)

RECURSIVE BGPCapAddPath_write(_, _, _)
BGPCapAddPath_write(r, offset, value) ==
    IF r.err # Nil \/ value = << >> THEN r
    ELSE BGPCapAddPath_write(
             Put(r, offset, Bytes16(Head(value).AFI) \o << U8(Head(value).SAFI), Head(value).Flags >>),
             U8(offset + 4), Tail(value))

\* capability.Encode() through the BGPCapability interface
BGPCapability_Encode(cap) ==
    CASE cap.kind = "BGPCapMPExt" ->
            Put(BGPCapabilityBase_Encode(cap), 2, Bytes16(cap.AFI) \o << 0, U8(cap.SAFI) >>)
      [] cap.kind = "BGPCapAS4Path" -> Put(BGPCapabilityBase_Encode(cap), 2, Bytes32(cap.Value))
      [] cap.kind = "BGPCapAddPath" -> BGPCapAddPath_write(BGPCapabilityBase_Encode(cap), 2, cap.Value)
      [] OTHER -> CopyTo(BGPCapabilityBase_Encode(cap), 2, cap.Value)

RECURSIVE BGPOptParamCapability_encodeCaps(_, _)
BGPOptParamCapability_encodeCaps(g, value) ==
    IF value = << >> THEN [err |-> Nil, pkt |-> << >>]
    ELSE LET join(h, t) ==
                 IF h.err # Nil THEN [err |-> h.err, pkt |-> << >>]
                 ELSE IF t.err # Nil THEN [err |-> t.err, pkt |-> << >>]
                 ELSE [err |-> Nil, pkt |-> h.pkt \o t.pkt]
         IN  join(BGPCapability_Encode(Deref(g, Head(value))),
                  BGPOptParamCapability_encodeCaps(g, Tail(value)))

\* param.Encode() through the BGPOptParam interface: BGPOptParamCapability.Encode,
\* BGPOptParamUnknown.Encode (whose copy into a 2-byte buffer writes nothing)
BGPOptParam_Encode(g, param) ==
    IF param.kind = "BGPOptParamCapability"
    THEN LET head(caps) ==
                 IF caps.err # Nil THEN caps
                 ELSE [err |-> Nil, pkt |-> << U8(param.Type), param.Len >> \o caps.pkt]
         IN  head(BGPOptParamCapability_encodeCaps(g, param.Value))
    ELSE CopyTo([err |-> Nil, pkt |-> << U8(param.Type), param.Len >>], 2, param.Value)

NewBGPOptParamCapability(capabilities) ==
    LET RECURSIVE sum(_)
        sum(caps) == IF caps = << >> THEN 0 ELSE U8(TLV_TotalLen(Head(caps)) + sum(Tail(caps)))
    IN  [kind |-> "BGPOptParamCapability", Type |-> BGPOptParamTypeCapability,
         Len |-> sum(capabilities), Value |-> capabilities]

\* net.IP.To4
To4(ip) ==
    IF Len(ip) = 4 THEN ip
    ELSE IF Len(ip) = 16 /\ SubSeq(ip, 1, 12) = Zeros(10) \o << 255, 255 >> THEN SubSeq(ip, 13, 16)
    ELSE << >>

\* net.ParseIP of a dotted quad given as its four bytes
ParseIP(quad) == Zeros(10) \o << 255, 255 >> \o quad

RECURSIVE BGPOpen_encodeParams(_, _)
BGPOpen_encodeParams(g, optParams) ==
    IF optParams = << >> THEN [err |-> Nil, pkt |-> << >>, paramsLen |-> 0]
    ELSE LET join(h, t) ==
                 IF h.err # Nil THEN [err |-> h.err, pkt |-> << >>, paramsLen |-> 0]
                 ELSE IF t.err # Nil THEN [err |-> t.err, pkt |-> << >>, paramsLen |-> 0]
                 ELSE [err |-> Nil, pkt |-> h.pkt \o t.pkt,
                       paramsLen |-> U8(TLV_TotalLen(Deref(g, Head(optParams))) + t.paramsLen)]
         IN  join(BGPOptParam_Encode(g, Deref(g, Head(optParams))),
                  BGPOpen_encodeParams(g, Tail(optParams)))

BGPOpen_Encode(g, msg) ==
    LET fixed(params) ==
            IF params.err # Nil THEN [err |-> params.err, pkt |-> << >>]
            ELSE [err |-> Nil,
                  pkt |-> << msg.Version >> \o Bytes16(U16(msg.MyAS)) \o Bytes16(msg.HoldTime) \o
                          Copy(Zeros(4), 0, To4(msg.BGPId)) \o << params.paramsLen >> \o params.pkt]
    IN  fixed(BGPOpen_encodeParams(g, msg.OptParams))

\* myAS > math.MaxUint16 compares uint32 values
NewBGPOpenMessage(myAS, holdTime, bgpId, optParams) ==
    LET RECURSIVE sum(_)
        sum(ps) == IF ps = << >> THEN 0 ELSE U8(TLV_TotalLen(Head(ps)) + sum(Tail(ps)))
    IN  [Header |-> [NewBGPHeader EXCEPT !.Type = BGPMsgTypeOpen],
         Body |-> [kind |-> "BGPOpen", Version |-> 4,
                   MyAS |-> IF AboveMaxUint16(myAS) THEN BGPASTrans ELSE myAS,
                   HoldTime |-> holdTime, BGPId |-> ParseIP(bgpId),
                   OptParamLen |-> sum(optParams), OptParams |-> optParams]]

\* ---------------------------------------------------------------- message

NilBody == [kind |-> "nil"]

NewBGPMessage == [Header |-> NewBGPHeader, Body |-> NilBody]

NewBGPKeepAliveMessage ==
    [Header |-> [NewBGPHeader EXCEPT !.Length = 19, !.Type = BGPMsgTypeKeepAlive],
     Body |-> BGPKeepAlive]

NewBGPNotificationMessage(errorCode, errorSubCode, data) ==
    [Header |-> [NewBGPHeader EXCEPT !.Length = U16(21 + U16(Len(data))),
                                     !.Type = BGPMsgTypeNotification],
     Body |-> BGPNotification(errorCode, errorSubCode, data)]

NewBGPUpdateMessage(wdRoutes, pa, nlri) ==
    [Header |-> [NewBGPHeader EXCEPT !.Type = BGPMsgTypeUpdate],
     Body |-> BGPUpdate(wdRoutes, pa, nlri)]

\* msg.Body.Encode() through the BGPBody interface; a nil Body is a nil dereference
BGPBody_Encode(g, body) ==
    CASE body.kind = "BGPOpen" -> BGPOpen_Encode(g, body)
      [] body.kind = "BGPUpdate" -> BGPUpdate_Encode(body)
      [] body.kind = "BGPNotification" -> BGPNotification_Encode(body)
      [] body.kind = "BGPKeepAlive" -> BGPKeepAlive_Encode(body)
      [] OTHER -> [err |-> Panic, pkt |-> << >>]

\* BGPMessage.Encode: returns the bytes and leaves the computed length in the header
BGPMessage_Encode(g, msg) ==
    LET framed(body, m) ==
            [err |-> Nil, pkt |-> BGPHeader_Encode(m.Header) \o body.pkt, msg |-> m]
        encoded(body) ==
            IF body.err # Nil THEN [err |-> body.err, pkt |-> << >>, msg |-> msg]
            ELSE IF msg.Header.Length = 0 /\ BGPMsgHeaderLen + Len(body.pkt) > BGPMsgMaxLen
            THEN [err |-> BGPMessageError(0, 0, << >>), pkt |-> << >>, msg |-> msg]
            ELSE framed(body,
                        IF msg.Header.Length = 0
                        THEN [msg EXCEPT !.Header.Length = U16(BGPMsgHeaderLen + U16(Len(body.pkt)))]
                        ELSE msg)
    IN  encoded(BGPBody_Encode(g, msg.Body))

\* the AS numbers of a segment list, in order
RECURSIVE FlattenAS(_)
FlattenAS(segs) == IF segs = << >> THEN << >> ELSE Head(segs).AS \o FlattenAS(Tail(segs))

\* the segment list with its AS numbers replaced, in order, by those of "as"
RECURSIVE RefillAS(_, _)
RefillAS(segs, as) ==
    IF segs = << >> THEN << >>
    ELSE LET n == Len(Head(segs).AS)
         IN  << [Head(segs) EXCEPT !.AS = SubSeq(as, 1, n)] >> \o
             RefillAS(Tail(segs), SubSeq(as, n + 1, Len(as)))

\* NormalizeASPath: for a peer that speaks 2-byte AS numbers, AS4_Path is laid
\* right-aligned over AS_PATH and then removed; nothing changes otherwise
NormalizeASPath(msg, data) ==
    LET attrs == msg.Body.PathAttributes
        asIdx == { i \in 1..Len(attrs) : attrs[i].kind = "BGPPathAttrASPath" }
        as4Idx == { i \in 1..Len(attrs) : attrs[i].kind = "BGPPathAttrAS4Path" }
    IN  IF data.ASSize # 2 \/ asIdx = {} \/ as4Idx = {} THEN msg
        ELSE LET i == CHOOSE k \in asIdx : \A l \in asIdx : k <= l
                 j == CHOOSE k \in as4Idx : \A l \in as4Idx : k <= l
                 old == FlattenAS(attrs[i].Value)
                 new == FlattenAS(attrs[j].Value)
                 keep == Len(old) - Len(new)
                 folded == IF keep < 0 THEN old ELSE SubSeq(old, 1, keep) \o new
                 path == [attrs[i] EXCEPT !.Value = RefillAS(@, folded)]
                 rest == [k \in 1..Len(attrs) |-> IF k = i THEN path ELSE attrs[k]]
             IN  [msg EXCEPT !.Body.PathAttributes =
                      SubSeq(rest, 1, j - 1) \o SubSeq(rest, j + 1, Len(rest))]

\* BGPMessage.Decode.  "ran" tells whether a body decoder was called and "nested"
\* lists the errors the calls nested in the body decoder returned.
BGPMessage_Decode(g, msg, header, pkt, data) ==
    LET m0 == [msg EXCEPT !.Header = header]
        done(err, body, g1, nested) ==
            [err |-> err, g |-> g1, ran |-> TRUE, nested |-> nested,
             msg |-> IF err = Nil /\ header.Type = BGPMsgTypeUpdate
                     THEN NormalizeASPath([m0 EXCEPT !.Body = body], data)
                     ELSE [m0 EXCEPT !.Body = body]]
        open(r) == done(r.err, r.body, r.g, << >>)
        update(r) == done(r.err, r.body, g, r.nested)
        other(r) == done(r.err, r.body, g, << >>)
    IN  CASE header.Type = BGPMsgTypeOpen -> open(BGPOpen_Decode(g, pkt))
          [] header.Type = BGPMsgTypeKeepAlive -> other(BGPKeepAlive_Decode(pkt))
          [] header.Type = BGPMsgTypeUpdate -> update(BGPUpdate_Decode(header, pkt, data))
          [] header.Type = BGPMsgTypeNotification -> other(BGPNotification_Decode(pkt))
          [] OTHER -> [err |-> Nil, g |-> g, ran |-> FALSE, nested |-> << >>, msg |-> m0]

\* ------------------------------------------- path attributes: constructors

NewBGPPathAttrOrigin(originType) ==
    [kind |-> "BGPPathAttrOrigin",
     BGPPathAttrBase |-> BGPPathAttrBase(64, BGPPathAttrTypeOrigin, 1, 3), Value |-> originType]

NewBGPPathAttrASPath ==
    [kind |-> "BGPPathAttrASPath",
     BGPPathAttrBase |-> BGPPathAttrBase(80, BGPPathAttrTypeASPath, 0, 4),
     Value |-> << >>, ASSize |-> 0]

BGPPathAttrASPath_AppendASPathSegment(as, pathSeg) ==
    [as EXCEPT !.Value = Append(@, pathSeg),
               !.BGPPathAttrBase.Length = U16(@ + BGPASPathSegment_TotalLen(pathSeg))]

BGPPathAttrASPath_PrependASPathSegment(as, pathSeg) ==
    [as EXCEPT !.Value = << pathSeg >> \o @,
               !.BGPPathAttrBase.Length = U16(@ + BGPASPathSegment_TotalLen(pathSeg))]

\* BGPPathAttrAS4Path.AddASPathSegment puts the segment in front
BGPPathAttrAS4Path_AddASPathSegment(as, pathSeg) ==
    [as EXCEPT !.Value = << pathSeg >> \o @,
               !.BGPPathAttrBase.Length = U16(@ + BGPASPathSegment_TotalLen(pathSeg))]

\* BGPPathAttrClusterList.PrependId
BGPPathAttrClusterList_PrependId(c, id) ==
    [c EXCEPT !.Value = << id >> \o @, !.BGPPathAttrBase.Length = U16(@ + 4)]

NewBGPPathAttrNextHop ==
    [kind |-> "BGPPathAttrNextHop",
     BGPPathAttrBase |-> BGPPathAttrBase(64, BGPPathAttrTypeNextHop, 4, 3), Value |-> << >>]

NewBGPPathAttrOriginatorId(id) ==
    [kind |-> "BGPPathAttrOriginatorId",
     BGPPathAttrBase |-> BGPPathAttrBase(BGPPathAttrFlagOptional, BGPPathAttrTypeOriginatorId, 4, 3),
     Value |-> id]

NewBGPPathAttrAS4Path ==
    [kind |-> "BGPPathAttrAS4Path",
     BGPPathAttrBase |-> BGPPathAttrBase(BGPPathAttrFlagOptional + BGPPathAttrFlagTransitive,
                                         BGPPathAttrTypeASPath, 0, 4),
     Value |-> << >>]

NewBGPPathAttrLocalPref ==
    [kind |-> "BGPPathAttrLocalPref",
     BGPPathAttrBase |-> BGPPathAttrBase(BGPPathAttrFlagTransitive, BGPPathAttrTypeLocalPref, 4, 3),
     Value |-> 0]

NewBGPPathAttrAtomicAggregate ==
    [kind |-> "BGPPathAttrAtomicAggregate",
     BGPPathAttrBase |-> BGPPathAttrBase(BGPPathAttrFlagTransitive, BGPPathAttrTypeAtomicAggregate, 0, 3)]

NewBGPPathAttrAggregator ==
    [kind |-> "BGPPathAttrAggregator",
     BGPPathAttrBase |-> BGPPathAttrBase(BGPPathAttrFlagTransitive + BGPPathAttrFlagOptional,
                                         BGPPathAttrTypeAggregator, 6, 3),
     AS |-> 0, IP |-> << >>]

NewBGPPathAttrAS4Aggregator ==
    [kind |-> "BGPPathAttrAS4Aggregator",
     BGPPathAttrBase |-> BGPPathAttrBase(BGPPathAttrFlagTransitive + BGPPathAttrFlagOptional,
                                         BGPPathAttrTypeAS4Aggregator, 8, 3),
     AS |-> 0, IP |-> << >>]

NewBGPPathAttrClusterList ==
    [kind |-> "BGPPathAttrClusterList",
     BGPPathAttrBase |-> BGPPathAttrBase(BGPPathAttrFlagOptional, BGPPathAttrTypeClusterList, 0, 3),
     Value |-> << >>]

\* the flags are BGPPathAttrFlagOptional & BGPPathAttrFlagExtendedLen
NewBGPPathAttrMPReachNLRI ==
    [ZeroAttr("BGPPathAttrMPReachNLRI") EXCEPT
        !.BGPPathAttrBase =
            BGPPathAttrBase(BitAnd(BGPPathAttrFlagOptional, BGPPathAttrFlagExtendedLen),
                            BGPPathAttrTypeMPReachNLRI, 0, 4)]

NewBGPPathAttrMPUnreachNLRI ==
    [ZeroAttr("BGPPathAttrMPUnreachNLRI") EXCEPT
        !.BGPPathAttrBase =
            BGPPathAttrBase(BitAnd(BGPPathAttrFlagOptional, BGPPathAttrFlagExtendedLen),
                            BGPPathAttrTypeMPUnreachNLRI, 0, 4)]

\* ------------------------------------------------------------------ Clone

\* Objects as they lie in memory.  A slice or pointer field holds [addr |-> n]
\* and heap[n] is what it points at: the elements of a slice of scalars (tag
\* "bytes"; "structs" for the AddPathAFISAFI entries of an Add-Path capability),
\* the elements of a slice of pointers or of slices (tag "ptrs"), or
\* the fields of an object (tag "obj").
NilRef == [addr |-> 0]

Alloc(h, cell) == [heap |-> Append(h, cell), p |-> [addr |-> Len(h) + 1]]

\* the slice and pointer-list fields of each struct, with what they hold
Schema(kind) ==
    CASE kind = "BGPOpen" -> << << "BGPId", "bytes" >>, << "OptParams", "ptrs" >> >>
      [] kind = "BGPOptParamCapability" -> << << "Value", "ptrs" >> >>
      [] kind \in {"BGPOptParamUnknown", "BGPCapUnknown", "BGPCapAddPath"} -> << << "Value", "bytes" >> >>
      [] kind = "BGPUpdate" ->
            << << "WithdrawnRoutes", "ptrs" >>, << "PathAttributes", "ptrs" >>, << "NLRI", "ptrs" >> >>
      [] kind = "BGPNotification" -> << << "Data", "bytes" >> >>
      [] kind \in {"IPPrefix", "ExtNLRI"} -> << << "Prefix", "bytes" >> >>
      [] kind \in {"BGPAS2PathSegment", "BGPAS4PathSegment"} -> << << "AS", "bytes" >> >>
      [] kind \in {"BGPPathAttrASPath", "BGPPathAttrAS4Path"} -> << << "Value", "ptrs" >> >>
      [] kind \in {"BGPPathAttrNextHop", "BGPPathAttrOriginatorId", "BGPPathAttrClusterList",
                   "BGPPathAttrUnknown"} -> << << "Value", "bytes" >> >>
      [] kind \in {"BGPPathAttrAggregator", "BGPPathAttrAS4Aggregator"} -> << << "IP", "bytes" >> >>
      [] kind = "BGPPathAttrMPReachNLRI" -> << << "NextHop", "bytes" >>, << "NLRI", "lists" >> >>
      [] kind = "BGPPathAttrMPUnreachNLRI" -> << << "NLRI", "lists" >> >>
      [] OTHER -> << >>

RECURSIVE Store(_, _)
RECURSIVE StoreList(_, _, _)
RECURSIVE StoreFields(_, _, _)

\* the object v laid out in memory: [heap, p] with p pointing at it
Store(h, v) ==
    LET r == StoreFields(h, v, Schema(v.kind)) IN Alloc(r.heap, [tag |-> "obj", v |-> r.obj])

StoreList(h, list, mode) ==
    IF list = << >> THEN [heap |-> h, refs |-> << >>]
    ELSE LET e == IF mode = "ptrs" THEN Store(h, Head(list))
                  ELSE Alloc(h, [tag |-> "bytes", v |-> Head(list)])
             t == StoreList(e.heap, Tail(list), mode)
         IN  [heap |-> t.heap, refs |-> << e.p >> \o t.refs]

StoreFields(h, v, fields) ==
    IF fields = << >> THEN [heap |-> h, obj |-> v]
    ELSE LET f == Head(fields)[1]
             mode == Head(fields)[2]
             c == IF mode = "bytes"
                  THEN Alloc(h, [tag |-> IF v.kind = "BGPCapAddPath" THEN "structs" ELSE "bytes",
                                 v |-> v[f]])
                  ELSE LET l == StoreList(h, v[f], mode)
                       IN  Alloc(l.heap, [tag |-> "ptrs", v |-> l.refs])
         IN  StoreFields(c.heap, [v EXCEPT ![f] = c.p], Tail(fields))

RECURSIVE Load(_, _)
RECURSIVE LoadFields(_, _, _)

\* the object p points at, with all it reaches, as a value
Load(h, p) == IF p = NilRef THEN NilBody ELSE LoadFields(h, h[p.addr].v, Schema(h[p.addr].v.kind))

LoadFields(h, o, fields) ==
    IF fields = << >> THEN o
    ELSE LET f == Head(fields)[1]
             mode == Head(fields)[2]
             elems == IF o[f] = NilRef THEN << >> ELSE h[o[f].addr].v
             val == CASE mode = "bytes" -> elems
                      [] mode = "ptrs" -> [i \in 1..Len(elems) |-> Load(h, elems[i])]
                      [] OTHER -> [i \in 1..Len(elems) |->
                                      IF elems[i] = NilRef THEN << >> ELSE h[elems[i].addr].v]
         IN  LoadFields(h, [o EXCEPT ![f] = val], Tail(fields))

RECURSIVE Reach(_, _)
\* the addresses reachable from p
Reach(h, p) ==
    IF p = NilRef THEN {}
    ELSE LET cell == h[p.addr]
         IN  {p.addr} \cup
             CASE cell.tag \in {"bytes", "structs"} -> {}
               [] cell.tag = "ptrs" -> UNION { Reach(h, cell.v[i]) : i \in 1..Len(cell.v) }
               [] OTHER -> UNION { Reach(h, cell.v[Schema(cell.v.kind)[i][1]]) :
                                      i \in 1..Len(Schema(cell.v.kind)) }

\* x.F = make(T, len(F), cap(F)); copy(x.F, F)
CloneSlice(h, p) ==
    IF p = NilRef THEN Alloc(h, [tag |-> "bytes", v |-> << >>]) ELSE Alloc(h, h[p.addr])

\* IPPrefix.Clone, ExtNLRI.Clone
NLRI_Clone(h, p) ==
    LET c == CloneSlice(h, h[p.addr].v.Prefix)
    IN  Alloc(c.heap, [tag |-> "obj", v |-> [h[p.addr].v EXCEPT !.Prefix = c.p]])

\* BGPAS2PathSegment.Clone, BGPAS4PathSegment.Clone
BGPASPathSegment_Clone(h, p) ==
    LET c == CloneSlice(h, h[p.addr].v.AS)
    IN  Alloc(c.heap, [tag |-> "obj", v |-> [h[p.addr].v EXCEPT !.AS = c.p]])

RECURSIVE BGPPathAttr_Clone(_, _)
RECURSIVE CloneEach(_, _, _)

\* x.F = make(...); for each item of F: x.F = append(x.F, item.Clone()), or for
\* "bytes" a fresh copy of each inner slice
CloneList(h, p, what) ==
    LET made(c) == Alloc(c.heap, [tag |-> "ptrs", v |-> c.refs])
    IN  made(CloneEach(h, IF p = NilRef THEN << >> ELSE h[p.addr].v, what))

CloneEach(h, refs, what) ==
    IF refs = << >> THEN [heap |-> h, refs |-> << >>]
    ELSE LET join(c, t) == [heap |-> t.heap, refs |-> << c.p >> \o t.refs]
             first(c) == join(c, CloneEach(c.heap, Tail(refs), what))
         IN  first(CASE what = "NLRI" -> NLRI_Clone(h, Head(refs))
                     [] what = "segment" -> BGPASPathSegment_Clone(h, Head(refs))
                     [] what = "attr" -> BGPPathAttr_Clone(h, Head(refs))
                     [] OTHER -> CloneSlice(h, Head(refs)))

\* pa.Clone() through the BGPPathAttr interface: x := *pa copies the struct, so a
\* slice field not re-made still points at the original's elements
BGPPathAttr_Clone(h, p) ==
    LET pa == h[p.addr].v
        made(x) == Alloc(x.heap, [tag |-> "obj", v |-> x.obj])
        value(c) == [heap |-> c.heap, obj |-> [pa EXCEPT !.Value = c.p]]
        ip(c) == [heap |-> c.heap, obj |-> [pa EXCEPT !.IP = c.p]]
        reach(n, c) == [heap |-> c.heap, obj |-> [pa EXCEPT !.NextHop = n.p, !.NLRI = c.p]]
        hop(n) == reach(n, CloneList(n.heap, pa.NLRI, "bytes"))
        unreach(c) == [heap |-> c.heap, obj |-> [pa EXCEPT !.NLRI = c.p]]
    IN  made(CASE pa.kind \in {"BGPPathAttrOrigin", "BGPPathAttrMultiExitDisc", "BGPPathAttrLocalPref",
                               "BGPPathAttrAtomicAggregate", "BGPPathAttrOriginatorId"} ->
                    [heap |-> h, obj |-> pa]
               [] pa.kind \in {"BGPPathAttrNextHop", "BGPPathAttrClusterList", "BGPPathAttrUnknown"} ->
                    value(CloneSlice(h, pa.Value))
               [] pa.kind \in {"BGPPathAttrAggregator", "BGPPathAttrAS4Aggregator"} ->
                    ip(CloneSlice(h, pa.IP))
               [] pa.kind \in {"BGPPathAttrASPath", "BGPPathAttrAS4Path"} ->
                    value(CloneList(h, pa.Value, "segment"))
               [] pa.kind = "BGPPathAttrMPReachNLRI" -> hop(CloneSlice(h, pa.NextHop))
               [] OTHER -> unreach(CloneList(h, pa.NLRI, "bytes")))

BGPOpen_Clone(h, p) ==
    LET c == CloneSlice(h, h[p.addr].v.BGPId)
    IN  Alloc(c.heap, [tag |-> "obj", v |-> [h[p.addr].v EXCEPT !.BGPId = c.p]])

BGPKeepAlive_Clone(h, p) == Alloc(h, h[p.addr])

BGPNotification_Clone(h, p) ==
    LET c == CloneSlice(h, h[p.addr].v.Data)
    IN  Alloc(c.heap, [tag |-> "obj", v |-> [h[p.addr].v EXCEPT !.Data = c.p]])

BGPUpdate_Clone(h, p) ==
    LET msg == h[p.addr].v
        made(wd, pa, nlri) ==
            Alloc(nlri.heap, [tag |-> "obj",
                              v |-> [msg EXCEPT !.WithdrawnRoutes = wd.p, !.PathAttributes = pa.p,
                                                !.NLRI = nlri.p]])
        attrs(wd, pa) == made(wd, pa, CloneList(pa.heap, msg.NLRI, "NLRI"))
        withdrawn(wd) == attrs(wd, CloneList(wd.heap, msg.PathAttributes, "attr"))
    IN  withdrawn(CloneList(h, msg.WithdrawnRoutes, "NLRI"))

BGPHeader_Clone(header) == header

\* BGPMessage.Clone; msg is [Header, Body] with Body a pointer
BGPMessage_Clone(h, msg) ==
    LET kind == h[msg.Body.addr].v.kind
        made(c) == [heap |-> c.heap, msg |-> [Header |-> BGPHeader_Clone(msg.Header), Body |-> c.p]]
    IN  made(CASE kind = "BGPOpen" -> BGPOpen_Clone(h, msg.Body)
               [] kind = "BGPUpdate" -> BGPUpdate_Clone(h, msg.Body)
               [] kind = "BGPNotification" -> BGPNotification_Clone(h, msg.Body)
               [] OTHER -> BGPKeepAlive_Clone(h, msg.Body))

\* a caller's write through the pointer or slice at address a: one element of a
\* slice is overwritten, or one scalar field of an object
ScalarField(kind) ==
    CASE kind = "BGPOpen" -> "HoldTime"
      [] kind = "BGPUpdate" -> "WithdrawnRoutesLen"
      [] kind = "BGPNotification" -> "ErrorCode"
      [] kind \in {"IPPrefix", "ExtNLRI"} -> "Length"
      [] kind \in {"BGPAS2PathSegment", "BGPAS4PathSegment", "BGPOptParamCapability",
                   "BGPOptParamUnknown", "BGPCapMPExt", "BGPCapAS4Path", "BGPCapAddPath",
                   "BGPCapUnknown"} -> "Type"
      [] kind = "BGPKeepAlive" -> "kind"
      [] OTHER -> "BGPPathAttrBase"

WriteAt(h, a, i) ==
    LET cell == h[a]
    IN  CASE cell.tag = "bytes" -> [h EXCEPT ![a].v[i] = (@ + 1) % 256]
          [] cell.tag = "structs" -> [h EXCEPT ![a].v[i].Flags = (@ + 1) % 256]
          [] cell.tag = "ptrs" -> [h EXCEPT ![a].v[i] = NilRef]
          [] OTHER ->
               LET f == ScalarField(cell.v.kind)
               IN  IF f = "kind" THEN h
                   ELSE IF f = "BGPPathAttrBase"
                   THEN [h EXCEPT ![a].v.BGPPathAttrBase.Code = (@ + 1) % 256]
                   ELSE [h EXCEPT ![a].v[f] = (@ + 1) % 256]

\* the indices a write at address a is tried at: the first and the last element
WriteIndices(h, a) == IF h[a].tag = "obj" THEN {1} ELSE {1, Len(h[a].v)} \cap 1..Len(h[a].v)

\* ------------------------------------------------------------ the inputs

MaxEncodes == 2
MaxGrow == 1
MaxOpenDecodes == 2
MaxOriginLen == 3
MaxTrail == 1
MaxSegOps == 2
MaxPathOps == 3
MaxSessionOpens == 2

Peer4 == BGPPeerAttrs(4, << >>)
Peer2 == BGPPeerAttrs(2, << >>)
PeerAddPath == BGPPeerAttrs(4, (AfiIP :> (SafiUnicast :> 1)))
Peers == {Peer4, Peer2, PeerAddPath}

\* a peer whose Add-Path map has the IPv4 AFI with a SAFI other than unicast
PeerAddPathOther == BGPPeerAttrs(4, (AfiIP :> ((SafiUnicast + 1) :> 1)))

IP1 == NewIPPrefix(<< 10, 1, 1, 0 >>, 24)
IP2 == NewIPPrefix(<< 192, 168, 0, 0 >>, 16)

\* a prefix in the form the peer's Add-Path setting calls for
Nlri(p, ip) == IF AfiIP \in DOMAIN p.AddPathFamily THEN NewExtNLRI(7, ip) ELSE ip

\* a Sequence segment of two AS numbers in the peer's AS width
Seg(p) ==
    IF p.ASSize = 4
    THEN BGPASPathSegment_AppendAS(
             BGPASPathSegment_AppendAS(NewBGPAS4PathSegmentSeq, 65001).ps, 131072).ps
    ELSE BGPASPathSegment_AppendAS(
             BGPASPathSegment_AppendAS(NewBGPAS2PathSegmentSeq, 65001).ps, 65002).ps

\* Origin, AS_PATH and Next_Hop as their constructors build them; the caller
\* fills in the AS width and the next hop
Mandatory(p) ==
    << NewBGPPathAttrOrigin(0),
       [BGPPathAttrASPath_AppendASPathSegment(NewBGPPathAttrASPath, Seg(p)) EXCEPT !.ASSize = p.ASSize],
       [NewBGPPathAttrNextHop EXCEPT !.Value = << 192, 0, 2, 1 >>] >>

AttrLists(p) ==
    { << >>, Mandatory(p), Mandatory(p) \o << NewBGPPathAttrOriginatorId(<< 1, 1, 1, 1 >>) >> }

WdLists(p) == { << >>, << Nlri(p, IP2) >> }
NlriLists(p) == { << >>, << Nlri(p, IP1), Nlri(p, IP2) >> }

\* NOTIFICATION data: none, a few bytes, the most that fits in 4096 and one more
DataSamples == { << >>, << 1, 2 >>, Zeros(BGPMsgMaxLen - 21), Zeros(BGPMsgMaxLen - 20) }

OpenParams ==
    << NewBGPOptParamCapability(<< NewBGPCapMPExt(AfiIP, SafiUnicast), NewBGPCap4ByteASPath(131072) >>) >>

\* scenario S1: one capability parameter holding one multiprotocol capability
S1Params == << NewBGPOptParamCapability(<< NewBGPCapMPExt(AfiIP, SafiUnicast) >>) >>

S1Open == NewBGPOpenMessage(65001, 180, << 10, 0, 0, 1 >>, S1Params)

\* c := NewBGPCapAddPath(0); c.AddAddPathAFISAFI(NewAddPathAFISAFI(1, 1, 3)), and
\* one capability parameter holding c
AddPathParams ==
    << NewBGPOptParamCapability(
           << BGPCapAddPath_AddAddPathAFISAFI(NewBGPCapAddPath(0),
                                              NewAddPathAFISAFI(AfiIP, SafiUnicast, 3)) >>) >>

\* OPEN bodies the sessions receive: a multiprotocol capability, a multiprotocol
\* and a 4-byte-AS capability, an Add-Path capability, an unknown capability, a
\* multiprotocol capability of length 2, and a body cut short
SessionPkts ==
    { << 4, 253, 233, 0, 180, 1, 1, 1, 1, 8, 2, 6, 1, 4, 0, 1, 0, 1 >>,
      << 4, 253, 234, 0, 90, 2, 2, 2, 2, 14, 2, 12, 1, 4, 0, 2, 0, 128, 65, 4, 0, 2, 0, 0 >>,
      << 4, 253, 233, 0, 180, 1, 1, 1, 1, 8, 2, 6, 69, 4, 0, 1, 1, 3 >>,
      << 4, 253, 233, 0, 180, 1, 1, 1, 1, 6, 2, 4, 99, 2, 7, 8 >>,
      << 4, 253, 233, 0, 180, 1, 1, 1, 1, 6, 2, 4, 1, 2, 0, 2 >>,
      << 4, 0 >> }

\* arguments of NewBGPOpenMessage: myAS, bgpId, optParams; the AS 4294967295
\* is held as its representative -1
OpenArgs ==
    ({65001, 131072} \X {<< 1, 1, 1, 1 >>} \X {<< >>, OpenParams}) \cup
    { << 65001, << 10, 0, 0, 1 >>, S1Params >>, << 65001, << 1, 1, 1, 1 >>, AddPathParams >>,
      << -1, << 1, 1, 1, 1 >>, << >> >> }

\* bytes on the wire: a header with the given length and type, then the body
Frame(length, type, body) ==
    BGPHeader_Encode([NewBGPHeader EXCEPT !.Length = length, !.Type = type]) \o body

Framed(type, body) == Frame(BGPMsgHeaderLen + Len(body), type, body)

UpdateBody(wd, attrs, nlri) ==
    Bytes16(Len(wd)) \o wd \o Bytes16(Len(attrs)) \o attrs \o nlri

OriginW == << 64, 1, 1, 0 >>
ASPathW == << 80, 2, 0, 10, 2, 2, 0, 0, 253, 233, 0, 2, 0, 0 >>
NextHopW == << 64, 3, 4, 192, 0, 2, 1 >>
NlriW == << 24, 10, 1, 1 >>

UpdateWires ==
    { Framed(BGPMsgTypeUpdate, UpdateBody(<< >>, OriginW \o ASPathW \o NextHopW, NlriW)),
      Framed(BGPMsgTypeUpdate, UpdateBody(<< >>, << >>, NlriW)),
      Framed(BGPMsgTypeUpdate, UpdateBody(<< >>, << >>, << 0, 0, 0, 7 >> \o NlriW)),
      Framed(BGPMsgTypeUpdate, UpdateBody(<< >>, OriginW, NlriW)),
      Framed(BGPMsgTypeUpdate, UpdateBody(<< >>, OriginW \o OriginW \o ASPathW \o NextHopW, NlriW)),
      Framed(BGPMsgTypeUpdate, UpdateBody(<< >>, << 128, 1, 1, 0 >> \o ASPathW \o NextHopW, NlriW)),
      Framed(BGPMsgTypeUpdate, UpdateBody(<< >>, OriginW \o NextHopW \o << 80, 2, 0, 3, 2, 1, 255 >>, << >>)),
      Framed(BGPMsgTypeUpdate, UpdateBody(<< >>, OriginW \o ASPathW \o NextHopW, << 24, 10 >>)),
      Framed(BGPMsgTypeUpdate, UpdateBody(<< 24, 10 >>, << >>, << >>)),
      Framed(BGPMsgTypeUpdate, UpdateBody(<< >>, << >>, << 8 >>)),
      Framed(BGPMsgTypeUpdate, UpdateBody(<< >>, << 64, 1 >>, << >>)),
      Framed(BGPMsgTypeUpdate, << 0, 0, 0, 4, 64, 3, 8, 192, 0, 2, 1, 1, 1, 1, 1 >> \o NlriW),
      Framed(BGPMsgTypeUpdate, << 0 >>),
      Frame(40, BGPMsgTypeUpdate, UpdateBody(<< >>, OriginW, << >>)) }

OtherWires ==
    { Framed(BGPMsgTypeKeepAlive, << >>),
      Framed(BGPMsgTypeNotification, << 6, 2 >>),
      Framed(BGPMsgTypeNotification, << 6, 2, 1, 2 >>),
      Framed(BGPMsgTypeNotification, << 6 >>),
      Framed(BGPMsgTypeOpen, << 4, 253, 233, 0, 180, 1, 1, 1, 1, 3, 1, 1, 9 >>),
      Framed(BGPMsgTypeOpen, << 4, 253, 233, 0, 180, 1, 1, 1, 1, 8, 2, 6, 1, 4, 0, 1, 0, 1 >>),
      Framed(BGPMsgTypeOpen, << 4, 253, 233, 0, 180, 1, 1, 1, 1, 8 >>),
      Framed(BGPMsgTypeOpen, << 4, 253, 233, 0, 180, 1, 1, 1, 1, 8, 2, 6, 1, 4, 0, 1 >>),
      Framed(BGPMsgTypeOpen, << 4, 253, 233, 0, 180, 1, 1, 1, 1, 6, 2, 4, 99, 2, 7, 8 >>),
      Framed(BGPMsgTypeOpen, << 4, 253, 233, 0, 180, 1, 1, 1, 1, 5, 2, 3, 1, 4, 0 >>),
      Framed(BGPMsgTypeOpen, << 4, 0 >>),
      Framed(0, << >>),
      Framed(5, << >>),
      Framed(5, << 1, 2, 3 >>),
      Framed(255, << 0, 0, 0, 0 >>),
      [i \in 1..18 |-> 255],
      << 255, 255 >> }

WireSamples == UpdateWires \cup OtherWires

OriginFlagSamples == {0, 64, 80, 96, 128, 144, 192}

\* an Origin attribute with the given flags and declared length, its value bytes,
\* and "trail" bytes of what follows it in the buffer
OriginAttr(flags, length, trail) ==
    (IF BitAnd(flags, BGPPathAttrFlagExtendedLen) # 0
     THEN << flags, BGPPathAttrTypeOrigin >> \o Bytes16(length)
     ELSE << flags, BGPPathAttrTypeOrigin, length >>) \o
    [i \in 1..length |-> i - 1] \o [i \in 1..trail |-> 170]

\* Aggregator and AS4_Aggregator attributes of declared length 5, 6 and 8, with
\* no flag set and with the optional and transitive flags, alone in the buffer
\* and followed by two more bytes
AggregatorSamples ==
    { << f, BGPPathAttrTypeAggregator, 6, 253, 233, 10, 0, 0, 1 >> : f \in {0, 192} } \cup
    { << 0, BGPPathAttrTypeAggregator, 5, 253, 233, 10, 0, 0 >>,
      << 0, BGPPathAttrTypeAS4Aggregator, 6, 0, 2, 0, 0, 10, 0 >>,
      << 0, BGPPathAttrTypeAS4Aggregator, 6, 0, 2, 0, 0, 10, 0, 0, 1 >>,
      << 0, BGPPathAttrTypeAS4Aggregator, 8, 0, 2, 0, 0, 10, 0, 0, 1 >>,
      << 192, BGPPathAttrTypeAS4Aggregator, 8, 0, 2, 0, 0, 10, 0, 0, 1 >> }

\* optional non-transitive attributes with the partial bit set and clear:
\* Multi_Exit_Disc and the unassigned type codes 8 and 99
PartialSamples ==
    { << 160, BGPPathAttrTypeMultiExitDisc, 4, 0, 0, 0, 5 >>,
      << 160, 8, 2, 1, 2 >>, << 128, 8, 2, 1, 2 >>, << 160, 99, 2, 1, 2 >> }

\* an MP_Reach attribute: its value holds AFI, SAFI, the next hop length, the
\* next hop, the reserved byte and the NLRI entries, each with its bit length
MPReach(flags, nextHop, nlri) ==
    [ZeroAttr("BGPPathAttrMPReachNLRI") EXCEPT
        !.BGPPathAttrBase = BGPPathAttrBase(flags, BGPPathAttrTypeMPReachNLRI,
                                            5 + Len(nextHop) + Len(nlri) * 4,
                                            IF flags >= 144 THEN 4 ELSE 3),
        !.AFI = AfiIP, !.SAFI = SafiUnicast, !.Length = Len(nextHop),
        !.NextHop = nextHop, !.NLRI = nlri]

\* an MP_Unreach attribute: its value holds AFI, SAFI and the NLRI entries
MPUnreach(flags, nlri) ==
    [ZeroAttr("BGPPathAttrMPUnreachNLRI") EXCEPT
        !.BGPPathAttrBase = BGPPathAttrBase(flags, BGPPathAttrTypeMPUnreachNLRI,
                                            3 + Len(nlri) * 4,
                                            IF flags >= 144 THEN 4 ELSE 3),
        !.AFI = AfiIP, !.SAFI = SafiUnicast, !.NLRI = nlri]

\* the entries 10.1.1.0/24 and 10.2.2.0/24
MPNlriSamples == { << >>, << << 24, 10, 1, 1 >> >>, << << 24, 10, 1, 1 >>, << 24, 10, 2, 2 >> >> }

MPSamples ==
    { MPReach(f, h, n) : f \in {128, 144}, h \in {<< >>, << 10, 0, 0, 1 >>}, n \in MPNlriSamples } \cup
    { MPUnreach(f, n) : f \in {128, 144}, n \in MPNlriSamples }

\* the bit lengths a prefix can declare, and the bytes that hold that many bits
PrefixLengths == 0..255

PrefixBytes(length) == (length + 7) \div 8

\* a prefix on the wire: its bit length, the bytes 1, 2, ... that hold the bits,
\* and "trail" bytes of what follows it in the buffer
PrefixWire(length, trail) ==
    << length >> \o [i \in 1..PrefixBytes(length) |-> i] \o [i \in 1..trail |-> 200 + i]

AttrSamples ==
    { OriginAttr(f, l, t) : f \in OriginFlagSamples, l \in 0..MaxOriginLen, t \in 0..MaxTrail } \cup
    { << 64, 1, 1, 7 >>, << 64, 1, 2, 0 >>, << 80, 1, 255, 255 >>, << 64, 1 >>,
      NextHopW, ASPathW, << 80, 2, 0, 3, 2, 1, 255 >>, << 80, 2, 0, 2, 2, 255 >>,
      << 128, 4, 4, 0, 0, 0, 5 >>, << 128, 9, 4, 1, 1, 1, 1 >>, << 192, 17, 0 >>,
      << 192, 99, 2, 1, 2 >>, << 64, 5, 4, 0, 0, 0, 100 >>, << 64, 6, 0 >>,
      << 192, 8, 2, 1, 2 >>, << 64, 99, 2, 1, 2 >>, << 208, 99, 0, 1, 5, 170 >> } \cup
    AggregatorSamples \cup PartialSamples

\* the new segment ps after AppendAS(1), ..., AppendAS(n), n <= 255: each call
\* adds its AS at the end, one to Length and the AS width to the total length
Filled(ps, n) ==
    [ps EXCEPT !.AS = [i \in 1..n |-> i],
               !.Length = n,
               !.BGPASPathSegmentLen = U16(ps.BGPASPathSegmentLen + n * ASWidth(ps))]

\* segments that are empty, short, one below the limit of 255 and at it
SegLens == {0, 1, 254, 255}

SegSamples ==
    { Filled(ps, n) : ps \in {NewBGPAS2PathSegmentSeq, NewBGPAS4PathSegmentSeq}, n \in SegLens }

ASSamples == {65001, 131072}

\* cluster ids handed to PrependId
ClusterIds == {1, 167772161}

\* the segments added to a path: new ones, and one that holds an AS
PathSegSamples ==
    { NewBGPAS2PathSegmentSeq, NewBGPAS4PathSegmentSeq, Filled(NewBGPAS4PathSegmentSeq, 1) }

\* what each NewBGPPathAttr* constructor returns
ConstructedAttrs ==
    { NewBGPPathAttrOrigin(t) : t \in 0..2 } \cup
    { NewBGPPathAttrOriginatorId(id) : id \in {<< 1, 1, 1, 1 >>, << 10, 0, 0, 1 >>} } \cup
    { NewBGPPathAttrASPath, NewBGPPathAttrAS4Path, NewBGPPathAttrNextHop,
      NewBGPPathAttrLocalPref, NewBGPPathAttrAtomicAggregate, NewBGPPathAttrAggregator,
      NewBGPPathAttrAS4Aggregator, NewBGPPathAttrClusterList,
      NewBGPPathAttrMPReachNLRI, NewBGPPathAttrMPUnreachNLRI }

\* AS counts of a segment on the wire: none, few, and the counts around which
\* 2 + 4 * count and 2 + 2 * count pass 255
SegCounts == {0, 1, 2, 63, 64, 126, 127, 128, 254, 255}

\* a Sequence segment on the wire: type, count, the ASes 1, 2, ... in "width"
\* bytes each, and "trail" bytes of what follows it in the buffer
SegmentWire(width, n, trail) ==
    << BGPASPathSegmentSequence, n >> \o
    [k \in 1..(n * width) |-> IF k % width = 0 THEN k \div width ELSE 0] \o
    [i \in 1..trail |-> 0]

\* ------------------------------------------------------- the state machine

VARIABLES
    phase,      \* where the caller is: "idle", "built", "encoded", "received", "decoded", "reencoded", "cloned", "mutated"
    peer,       \* the BGPPeerAttrs handed to Decode
    msg,        \* the message the caller holds
    wire,       \* the bytes last returned by Encode or read from the peer
    out,        \* what the last call returned
    globals,    \* the objects of BGPOptParamTypeToStruct and BGPCapTypeToStruct
    opens,      \* OPEN bodies decoded so far
    encodes,    \* Encode calls on msg
    grown,      \* body mutations of msg
    heap,       \* memory, once msg is laid out for Clone
    orig,       \* msg in memory
    clone,      \* its clone
    seg,        \* the AS path segment the caller holds
    segOps,     \* PrependAS and AppendAS calls on seg, calls on path
    path,       \* the AS_PATH, AS4_PATH or CLUSTER_LIST attribute the caller holds
    sessions    \* the OPEN decode each peer session is in

vars ==
    << phase, peer, msg, wire, out, globals, opens, encodes, grown, heap, orig, clone, seg, segOps, path,
       sessions >>

NoMsg == [Header |-> NewBGPHeader, Body |-> NilRef]

NoSeg == [kind |-> "nil"]
NoPath == [kind |-> "nil"]

Init ==
    /\ phase = "idle"
    /\ peer = Peer4
    /\ msg = NewBGPMessage
    /\ wire = << >>
    /\ out = [op |-> "none"]
    /\ globals = GlobalsInit
    /\ opens = 0
    /\ encodes = 0
    /\ grown = 0
    /\ heap = << >>
    /\ orig = NoMsg
    /\ clone = NoMsg
    /\ seg = NoSeg
    /\ segOps = 0
    /\ path = NoPath
    /\ sessions = [n \in Sessions |-> IdleSession]

\* a constructor returns m; args are the arguments the claims look back at
Build(m, p, args) ==
    /\ phase = "idle"
    /\ phase' = "built"
    /\ msg' = m
    /\ peer' = p
    /\ out' = [op |-> "new", args |-> args]
    /\ UNCHANGED << wire, globals, opens, encodes, grown, heap, orig, clone, seg, segOps, path, sessions >>

DoNewUpdate ==
    \E p \in Peers : \E wd \in WdLists(p), pa \in AttrLists(p), nlri \in NlriLists(p) :
        Build(NewBGPUpdateMessage(wd, pa, nlri), p, << >>)

DoNewNotification ==
    \E data \in DataSamples : Build(NewBGPNotificationMessage(6, 2, data), Peer4, << >>)

DoNewKeepAlive == Build(NewBGPKeepAliveMessage, Peer4, << >>)

DoNewOpen ==
    \E a \in OpenArgs : Build(NewBGPOpenMessage(a[1], 180, a[2], a[3]), Peer4, [myAS |-> a[1]])

\* the caller clears Header.Length to have Encode compute it
ResetLength ==
    /\ phase \in {"built", "encoded"}
    /\ msg.Header.Length # 0
    /\ msg' = [msg EXCEPT !.Header.Length = 0]
    /\ out' = [op |-> "reset"]
    /\ UNCHANGED << phase, peer, wire, globals, opens, encodes, grown, heap, orig, clone, seg, segOps, path, sessions >>

\* the caller adds to the body: one more data byte, or one more announced prefix
Grow ==
    /\ phase \in {"built", "encoded"}
    /\ grown < MaxGrow
    /\ msg.Body.kind \in {"BGPNotification", "BGPUpdate"}
    /\ msg' = IF msg.Body.kind = "BGPNotification"
              THEN [msg EXCEPT !.Body.Data = Append(@, 9)]
              ELSE [msg EXCEPT !.Body.NLRI = Append(@, Nlri(peer, IP1))]
    /\ grown' = grown + 1
    /\ out' = [op |-> "grow"]
    /\ UNCHANGED << phase, peer, wire, globals, opens, encodes, heap, orig, clone, seg, segOps, path, sessions >>

\* c.AddAddPathAFISAFI(ap) on an Add-Path capability c that the OPEN holds: the
\* OPEN and its capability parameter hold pointers, their lengths stay as built
AddAddPathAFISAFI ==
    /\ phase \in {"built", "encoded"}
    /\ grown < MaxGrow
    /\ msg.Body.kind = "BGPOpen"
    /\ \E i \in 1..Len(msg.Body.OptParams) : \E j \in 1..Len(msg.Body.OptParams[i].Value) :
        /\ msg.Body.OptParams[i].Value[j].kind = "BGPCapAddPath"
        /\ msg' = [msg EXCEPT !.Body.OptParams[i].Value[j] =
                       BGPCapAddPath_AddAddPathAFISAFI(@, NewAddPathAFISAFI(AfiIP, SafiUnicast, 3))]
    /\ grown' = grown + 1
    /\ out' = [op |-> "addAddPath"]
    /\ UNCHANGED << phase, peer, wire, globals, opens, encodes, heap, orig, clone, seg, segOps, path, sessions >>

\* pkt, err := msg.Encode()
Encode ==
    /\ phase \in {"built", "encoded"}
    /\ encodes < MaxEncodes
    /\ LET returned(r) ==
               /\ msg' = r.msg
               /\ wire' = r.pkt
               /\ out' = [op |-> "encode", err |-> r.err, before |-> msg,
                          body |-> BGPBody_Encode(globals, msg.Body)]
       IN  returned(BGPMessage_Encode(globals, msg))
    /\ phase' = "encoded"
    /\ encodes' = encodes + 1
    /\ UNCHANGED << peer, globals, opens, grown, heap, orig, clone, seg, segOps, path, sessions >>

\* the peers a frame is received from: only the decoders of UPDATE read the
\* peer's attributes
PeersOf(pkt) == IF pkt \in UpdateWires THEN Peers \cup {PeerAddPathOther} ELSE {Peer2}

\* bytes arrive from a peer
Receive ==
    /\ phase = "idle"
    /\ \E pkt \in WireSamples : \E p \in PeersOf(pkt) :
        /\ wire' = pkt
        /\ peer' = p
    /\ phase' = "received"
    /\ out' = [op |-> "receive"]
    /\ UNCHANGED << msg, globals, opens, encodes, grown, heap, orig, clone, seg, segOps, path, sessions >>

\* header.Decode(pkt) on a new header, then msg.Decode(header, pkt[19:], data) on
\* a new message: on the bytes received, or on the bytes Encode just returned.
\* No other session decodes meanwhile; SessionSpec has the decodes of two
\* sessions interleave.
Decode ==
    /\ \/ phase = "received"
       \/ phase = "encoded" /\ out.op = "encode" /\ out.err = Nil
    /\ LET hd == BGPHeader_Decode(NewBGPHeader, wire)
           sent == IF phase = "encoded" THEN msg ELSE NewBGPMessage
       IN  IF hd.err # Nil
           THEN /\ out' = [op |-> "decode", err |-> hd.err, ran |-> FALSE, nested |-> << >>,
                           msg |-> NewBGPMessage, loop |-> phase = "encoded", sent |-> sent,
                           header |-> hd.header]
                /\ UNCHANGED << globals, opens >>
           ELSE /\ hd.header.Type = BGPMsgTypeOpen => opens < MaxOpenDecodes
                /\ LET returned(r) ==
                           /\ out' = [op |-> "decode", err |-> r.err, ran |-> r.ran,
                                      nested |-> r.nested, msg |-> r.msg,
                                      loop |-> phase = "encoded", sent |-> sent,
                                      header |-> hd.header]
                           /\ globals' = r.g
                   IN  returned(BGPMessage_Decode(globals, NewBGPMessage, hd.header,
                                                  From(wire, 19), peer))
                /\ opens' = IF hd.header.Type = BGPMsgTypeOpen THEN opens + 1 ELSE opens
    /\ phase' = "decoded"
    /\ UNCHANGED << peer, msg, wire, encodes, grown, heap, orig, clone, seg, segOps, path, sessions >>

\* pa := BGPGetPathAttr(pkt); err := pa.Decode(pkt, data)
DecodeAttr ==
    /\ phase = "idle"
    /\ \E pkt \in AttrSamples, p \in {Peer4, Peer2} :
        LET returned(r) ==
                /\ out' = [op |-> "attr", err |-> r.err, pa |-> r.pa]
                /\ wire' = pkt
                /\ peer' = p
        IN  returned(BGPPathAttr_Decode(BGPGetPathAttr(pkt), pkt, p))
    /\ phase' = "decoded"
    /\ UNCHANGED << msg, globals, opens, encodes, grown, heap, orig, clone, seg, segOps, path, sessions >>

\* pkt, err := pa.Encode() on an MP_Reach or MP_Unreach attribute
EncodeAttr ==
    /\ phase = "idle"
    /\ \E pa \in MPSamples :
        LET returned(r) == out' = [op |-> "encodeAttr", err |-> r.err, pkt |-> r.pkt, pa |-> pa]
        IN  returned(BGPPathAttr_Encode(pa))
    /\ phase' = "attrEncoded"
    /\ UNCHANGED << peer, msg, wire, globals, opens, encodes, grown, heap, orig, clone, seg, segOps, path, sessions >>

\* pa := BGPGetPathAttr(pkt); err := pa.Decode(pkt, data) on the bytes pa.Encode returned
DecodeSent ==
    /\ phase = "attrEncoded" /\ out.err = Nil
    /\ LET returned(r) ==
               out' = [op |-> "decodeSent", err |-> r.err, pa |-> r.pa, sent |-> out.pa]
       IN  returned(BGPPathAttr_Decode(BGPGetPathAttr(out.pkt), out.pkt, peer))
    /\ wire' = out.pkt
    /\ phase' = "decoded"
    /\ UNCHANGED << peer, msg, globals, opens, encodes, grown, heap, orig, clone, seg, segOps, path, sessions >>

\* ip := &IPPrefix{}; err := ip.Decode(pkt); n := ip.Len()
DecodePrefix ==
    /\ phase = "idle"
    /\ \E length \in PrefixLengths, trail \in {0, 2} :
        LET returned(r) ==
                out' = [op |-> "decodePrefix", err |-> r.err, nlri |-> r.nlri,
                        len |-> IPPrefix_Len(r.nlri)]
        IN  /\ returned(IPPrefix_Decode(PrefixWire(length, trail)))
            /\ wire' = PrefixWire(length, trail)
    /\ phase' = "prefix"
    /\ UNCHANGED << peer, msg, globals, opens, encodes, grown, heap, orig, clone, seg, segOps, path, sessions >>

\* pkt, err := ip.Encode() on the prefix ip.Decode just filled
EncodePrefix ==
    /\ phase = "prefix" /\ out.op = "decodePrefix" /\ out.err = Nil
    /\ LET returned(r) ==
               out' = [op |-> "encodePrefix", err |-> r.err, pkt |-> r.pkt, nlri |-> out.nlri]
       IN  returned(IPPrefix_Encode(out.nlri))
    /\ phase' = "prefixEncoded"
    /\ UNCHANGED << peer, msg, wire, globals, opens, encodes, grown, heap, orig, clone, seg, segOps, path, sessions >>

\* pkt, err := msg.Encode() on the message Decode just returned
Reencode ==
    /\ phase = "decoded" /\ out.op = "decode"
    /\ out.ran /\ out.err = Nil
    /\ LET returned(r) == out' = [op |-> "reencode", err |-> r.err, pkt |-> r.pkt]
       IN  returned(BGPMessage_Encode(globals, out.msg))
    /\ phase' = "reencoded"
    /\ UNCHANGED << peer, msg, wire, globals, opens, encodes, grown, heap, orig, clone, seg, segOps, path, sessions >>

\* pkt, err := pa.Encode() on the attribute pa.Decode just filled
ReencodeAttr ==
    /\ phase = "decoded" /\ out.op = "attr"
    /\ out.err = Nil
    /\ LET returned(r) == out' = [op |-> "reencodeAttr", err |-> r.err, pkt |-> r.pkt, pa |-> out.pa]
       IN  returned(BGPPathAttr_Encode(out.pa))
    /\ phase' = "reencoded"
    /\ UNCHANGED << peer, msg, wire, globals, opens, encodes, grown, heap, orig, clone, seg, segOps, path, sessions >>

\* c := msg.Clone()
Clone ==
    /\ phase = "built"
    /\ LET returned(o, c) ==
               /\ orig' = o
               /\ clone' = c.msg
               /\ heap' = c.heap
               /\ out' = [op |-> "clone", side |-> "none",
                          orig |-> Load(c.heap, o.Body), clone |-> Load(c.heap, c.msg.Body)]
           stored(s, o) == returned(o, BGPMessage_Clone(s.heap, o))
           held(s) == stored(s, [Header |-> msg.Header, Body |-> s.p])
       IN  held(Store(<< >>, msg.Body))
    /\ phase' = "cloned"
    /\ UNCHANGED << peer, msg, wire, globals, opens, encodes, grown, seg, segOps, path, sessions >>

\* the caller writes through the clone, or through the original
Mutate(side) ==
    /\ phase = "cloned"
    /\ \E a \in Reach(heap, IF side = "clone" THEN clone.Body ELSE orig.Body) :
        \E i \in WriteIndices(heap, a) : heap' = WriteAt(heap, a, i)
    /\ out' = [out EXCEPT !.op = "mutate", !.side = side]
    /\ phase' = "mutated"
    /\ UNCHANGED << peer, msg, wire, globals, opens, encodes, grown, orig, clone, seg, segOps, path, sessions >>

MutateClone == Mutate("clone")
MutateOrig == Mutate("orig")

\* the caller holds a segment: a new one, or one that AppendAS has filled
NewSegment ==
    /\ phase = "idle"
    /\ seg' \in SegSamples
    /\ phase' = "segment"
    /\ out' = [op |-> "newSegment"]
    /\ UNCHANGED << peer, msg, wire, globals, opens, encodes, grown, heap, orig, clone, segOps, path, sessions >>

\* seg := &BGPAS2PathSegment{} or &BGPAS4PathSegment{}; err := seg.Decode(pkt, data)
DecodeSegment ==
    /\ phase = "idle"
    /\ \E ps \in {NewBGPAS2PathSegmentSeq, NewBGPAS4PathSegmentSeq}, n \in SegCounts, trail \in {0, 1} :
        LET returned(r) ==
                /\ seg' = r.ps
                /\ out' = [op |-> "decodeSegment", err |-> r.err]
                /\ phase' = IF r.err = Nil THEN "segment" ELSE "failed"
        IN  returned(BGPASPathSegment_Decode([ps EXCEPT !.Type = 0, !.BGPASPathSegmentLen = 0],
                                             SegmentWire(ASWidth(ps), n, trail)))
    /\ UNCHANGED << peer, msg, wire, globals, opens, encodes, grown, heap, orig, clone, segOps, path, sessions >>

\* seg, mappable := seg.CloneAsAS2PathSegment() on a segment of 4-byte ASes
CloneAsAS2PathSegment ==
    /\ phase = "segment"
    /\ seg.kind = "BGPAS4PathSegment"
    /\ LET returned(r) ==
               /\ seg' = r.ps
               /\ out' = [op |-> "cloneAsAS2", mappable |-> r.mappable, before |-> seg]
       IN  returned(BGPAS4PathSegment_CloneAsAS2PathSegment(seg))
    /\ UNCHANGED << phase, peer, msg, wire, globals, opens, encodes, grown, heap, orig, clone, segOps, path, sessions >>

\* pa := NewBGPPathAttrOrigin(t), ..., NewBGPPathAttrMPUnreachNLRI()
NewAttr ==
    /\ phase = "idle"
    /\ \E pa \in ConstructedAttrs : out' = [op |-> "newAttr", pa |-> pa]
    /\ phase' = "attr"
    /\ UNCHANGED << peer, msg, wire, globals, opens, encodes, grown, heap, orig, clone, seg, segOps, path, sessions >>

\* path := NewBGPPathAttrASPath()
NewPath ==
    /\ phase = "idle"
    /\ path' = NewBGPPathAttrASPath
    /\ phase' = "path"
    /\ out' = [op |-> "newPath"]
    /\ UNCHANGED << peer, msg, wire, globals, opens, encodes, grown, heap, orig, clone, seg, segOps, sessions >>

\* path := NewBGPPathAttrAS4Path() or NewBGPPathAttrClusterList()
NewAS4PathOrClusterList ==
    /\ phase = "idle"
    /\ path' \in {NewBGPPathAttrAS4Path, NewBGPPathAttrClusterList}
    /\ phase' = "held"
    /\ out' = [op |-> "newHeld"]
    /\ UNCHANGED << peer, msg, wire, globals, opens, encodes, grown, heap, orig, clone, seg, segOps, sessions >>

\* path.AddASPathSegment(ps) on an AS4_PATH
AddASPathSegment ==
    /\ phase = "held" /\ path.kind = "BGPPathAttrAS4Path"
    /\ segOps < MaxPathOps
    /\ \E ps \in { s \in PathSegSamples : s.kind = "BGPAS4PathSegment" } :
        path' = BGPPathAttrAS4Path_AddASPathSegment(path, ps)
    /\ segOps' = segOps + 1
    /\ out' = [op |-> "addSegment"]
    /\ UNCHANGED << phase, peer, msg, wire, globals, opens, encodes, grown, heap, orig, clone, seg, sessions >>

\* path.PrependId(id) on a CLUSTER_LIST
PrependId ==
    /\ phase = "held" /\ path.kind = "BGPPathAttrClusterList"
    /\ segOps < MaxPathOps
    /\ \E id \in ClusterIds : path' = BGPPathAttrClusterList_PrependId(path, id)
    /\ segOps' = segOps + 1
    /\ out' = [op |-> "prependId"]
    /\ UNCHANGED << phase, peer, msg, wire, globals, opens, encodes, grown, heap, orig, clone, seg, sessions >>

\* pkt, err := path.Encode() on the AS4_PATH or CLUSTER_LIST
EncodeHeld ==
    /\ phase = "held"
    /\ LET returned(r) == out' = [op |-> "encodeHeld", err |-> r.err, pkt |-> r.pkt]
       IN  returned(BGPPathAttr_Encode(path))
    /\ phase' = "heldEncoded"
    /\ UNCHANGED << peer, msg, wire, globals, opens, encodes, grown, heap, orig, clone, seg, segOps, path, sessions >>

\* path.PrependASPathSegment(ps)
PrependASPathSegment ==
    /\ phase = "path"
    /\ segOps < MaxPathOps
    /\ \E ps \in PathSegSamples : path' = BGPPathAttrASPath_PrependASPathSegment(path, ps)
    /\ segOps' = segOps + 1
    /\ out' = [op |-> "prependSegment"]
    /\ UNCHANGED << phase, peer, msg, wire, globals, opens, encodes, grown, heap, orig, clone, seg, sessions >>

\* path.AppendASPathSegment(ps)
AppendASPathSegment ==
    /\ phase = "path"
    /\ segOps < MaxPathOps
    /\ \E ps \in PathSegSamples : path' = BGPPathAttrASPath_AppendASPathSegment(path, ps)
    /\ segOps' = segOps + 1
    /\ out' = [op |-> "appendSegment"]
    /\ UNCHANGED << phase, peer, msg, wire, globals, opens, encodes, grown, heap, orig, clone, seg, sessions >>

\* ok := path.Value[i].PrependAS(as): the path holds a pointer to the segment,
\* the call changes the segment and nothing of the path
PathPrependAS ==
    /\ phase = "path"
    /\ segOps < MaxPathOps
    /\ \E i \in 1..Len(path.Value), as \in ASSamples :
        LET returned(r) ==
                /\ path' = [path EXCEPT !.Value[i] = r.ps]
                /\ out' = [op |-> "pathPrependAS", ok |-> r.ok]
        IN  returned(BGPASPathSegment_PrependAS(path.Value[i], as))
    /\ segOps' = segOps + 1
    /\ UNCHANGED << phase, peer, msg, wire, globals, opens, encodes, grown, heap, orig, clone, seg, sessions >>

\* ok := path.Value[i].AppendAS(as)
PathAppendAS ==
    /\ phase = "path"
    /\ segOps < MaxPathOps
    /\ \E i \in 1..Len(path.Value), as \in ASSamples :
        LET returned(r) ==
                /\ path' = [path EXCEPT !.Value[i] = r.ps]
                /\ out' = [op |-> "pathAppendAS", ok |-> r.ok]
        IN  returned(BGPASPathSegment_AppendAS(path.Value[i], as))
    /\ segOps' = segOps + 1
    /\ UNCHANGED << phase, peer, msg, wire, globals, opens, encodes, grown, heap, orig, clone, seg, sessions >>

\* pkt, err := path.Encode()
EncodePath ==
    /\ phase = "path"
    /\ LET returned(r) == out' = [op |-> "encodePath", err |-> r.err, pkt |-> r.pkt]
       IN  returned(BGPPathAttrASPath_Encode(path))
    /\ phase' = "pathEncoded"
    /\ UNCHANGED << peer, msg, wire, globals, opens, encodes, grown, heap, orig, clone, seg, segOps, path, sessions >>

\* ok := seg.PrependAS(as)
PrependAS ==
    /\ phase = "segment"
    /\ segOps < MaxSegOps
    /\ \E as \in ASSamples :
        LET returned(r) ==
                /\ seg' = r.ps
                /\ out' = [op |-> "prepend", ok |-> r.ok, as |-> as, before |-> seg]
        IN  returned(BGPASPathSegment_PrependAS(seg, as))
    /\ segOps' = segOps + 1
    /\ UNCHANGED << phase, peer, msg, wire, globals, opens, encodes, grown, heap, orig, clone, path, sessions >>

\* ok := seg.AppendAS(as)
AppendAS ==
    /\ phase = "segment"
    /\ segOps < MaxSegOps
    /\ \E as \in ASSamples :
        LET returned(r) ==
                /\ seg' = r.ps
                /\ out' = [op |-> "append", ok |-> r.ok, as |-> as, before |-> seg]
        IN  returned(BGPASPathSegment_AppendAS(seg, as))
    /\ segOps' = segOps + 1
    /\ UNCHANGED << phase, peer, msg, wire, globals, opens, encodes, grown, heap, orig, clone, path, sessions >>

\* the caller is done with the message
Return ==
    /\ phase # "idle"
    /\ phase' = "idle"
    /\ peer' = Peer4
    /\ msg' = NewBGPMessage
    /\ wire' = << >>
    /\ out' = [op |-> "none"]
    /\ encodes' = 0
    /\ grown' = 0
    /\ heap' = << >>
    /\ orig' = NoMsg
    /\ clone' = NoMsg
    /\ seg' = NoSeg
    /\ segOps' = 0
    /\ path' = NoPath
    /\ UNCHANGED << globals, opens, sessions >>

\* a session calls msg.Decode on an OPEN body
SessionOpen ==
    /\ opens < MaxSessionOpens
    /\ \E n \in Sessions, pkt \in SessionPkts :
        /\ ~Running(sessions[n])
        /\ sessions' = [sessions EXCEPT ![n] = Session_begin(globals, pkt)]
    /\ opens' = opens + 1
    /\ UNCHANGED << phase, peer, msg, wire, out, globals, encodes, grown, heap, orig, clone, seg, segOps, path >>

\* a running session takes its next step
SessionStep ==
    /\ \E n \in Sessions :
        /\ Running(sessions[n])
        /\ LET stepped(r) ==
                   /\ globals' = r.g
                   /\ sessions' = [m \in Sessions |->
                                      IF m = n THEN r.s
                                      ELSE IF Running(sessions[m]) THEN [sessions[m] EXCEPT !.alone = FALSE]
                                      ELSE sessions[m]]
           IN  stepped(Session_step(globals, sessions[n]))
    /\ UNCHANGED << phase, peer, msg, wire, out, opens, encodes, grown, heap, orig, clone, seg, segOps, path >>

Next ==
    \/ DoNewUpdate
    \/ DoNewNotification
    \/ DoNewKeepAlive
    \/ DoNewOpen
    \/ ResetLength
    \/ Grow
    \/ Encode
    \/ Receive
    \/ Decode
    \/ DecodeAttr
    \/ Reencode
    \/ ReencodeAttr
    \/ Clone
    \/ MutateClone
    \/ MutateOrig
    \/ NewSegment
    \/ PrependAS
    \/ AppendAS
    \/ Return

Spec == Init /\ [][Next]_vars

\* the calls on single attributes, prefixes, AS path segments and capabilities
NextAttr ==
    \/ DoNewOpen
    \/ AddAddPathAFISAFI
    \/ Encode
    \/ EncodeAttr
    \/ DecodeSent
    \/ DecodePrefix
    \/ EncodePrefix
    \/ NewSegment
    \/ DecodeSegment
    \/ CloneAsAS2PathSegment
    \/ PrependAS
    \/ AppendAS
    \/ NewAttr
    \/ NewPath
    \/ NewAS4PathOrClusterList
    \/ AddASPathSegment
    \/ PrependId
    \/ EncodeHeld
    \/ PrependASPathSegment
    \/ AppendASPathSegment
    \/ PathPrependAS
    \/ PathAppendAS
    \/ EncodePath
    \/ Return

AttrSpec == Init /\ [][NextAttr]_vars

\* the OPEN decodes of the peer sessions
NextSession ==
    \/ SessionOpen
    \/ SessionStep

SessionSpec == Init /\ [][NextSession]_vars

\* a session whose decode no other session's step fell into has done what
\* BGPOpen.Decode does as a whole
SessionAlone ==
    \A n \in Sessions :
        (sessions[n].pc = "done" /\ sessions[n].alone) =>
            LET d == BGPOpen_Decode(sessions[n].start, sessions[n].pkt)
            IN  /\ d.err = sessions[n].err
                /\ d.body = sessions[n].body
                /\ d.g = sessions[n].left

\* ---------------------------------------------------------------- claims

\* the last call decoded a whole message, header included, without a panic in
\* the header
Decoded == phase = "decoded" /\ out.op = "decode" /\ Len(wire) >= BGPMsgHeaderLen

DecodedUpdate == Decoded /\ out.header.Type = BGPMsgTypeUpdate

\* how often type code c occurs in an attribute list
Occurrences(attrs, c) == Cardinality({ i \in 1..Len(attrs) : BGPPathAttr_GetCode(attrs[i]) = c })

\* C1: an UPDATE built by NewBGPUpdateMessage whose attributes include Origin,
\* AS_PATH and Next_Hop, encoded once and decoded from those bytes with their
\* header and the same peer attributes, gives no error and the same withdrawn
\* routes, attributes and NLRI in the same order.
C1_UpdateRoundTrip ==
    (/\ Decoded /\ out.loop /\ encodes = 1 /\ grown = 0
     /\ out.sent.Body.kind = "BGPUpdate"
     /\ checkPathAttributes_missing(out.sent.Body.PathAttributes) = {})
    => /\ out.err = Nil
       /\ out.msg.Body.kind = "BGPUpdate"
       /\ out.msg.Body.WithdrawnRoutes = out.sent.Body.WithdrawnRoutes
       /\ out.msg.Body.PathAttributes = out.sent.Body.PathAttributes
       /\ out.msg.Body.NLRI = out.sent.Body.NLRI

\* C2: the bytes every successful Encode returns carry their own count in the
\* header length field, and that count is between 19 and 4096: also on a second
\* Encode after the body grew, and for constructors that preset the length.
C2_LengthFidelity ==
    (phase = "encoded" /\ out.op = "encode" /\ out.err = Nil)
    => /\ Len(wire) >= BGPMsgHeaderLen
       /\ Len(wire) <= BGPMsgMaxLen
       /\ Uint16(Slice(wire, 16, 18)) = Len(wire)

\* C3: after c := m.Clone(), a write through anything reachable from c leaves
\* all that is reachable from m as it was, and the other way round.
C3_CloneIndependence ==
    phase = "mutated"
    => /\ out.side = "clone" => Load(heap, orig.Body) = out.orig
       /\ out.side = "orig" => Load(heap, clone.Body) = out.clone

\* C4: an UPDATE decoded without error whose announced NLRI is not empty holds
\* Origin, AS_PATH and Next_Hop exactly once each.
C4_MandatoryAttributes ==
    (DecodedUpdate /\ out.err = Nil /\ out.msg.Body.NLRI # << >>)
    => \A i \in 1..Len(BGPPathAttrWellKnownMandatory) :
           Occurrences(out.msg.Body.PathAttributes, BGPPathAttrWellKnownMandatory[i]) = 1

\* C5: when a decode step nested in an UPDATE (a prefix, a path attribute, an
\* AS path segment) returns an error, BGPMessage.Decode returns that error.
C5_ErrorPropagation ==
    (DecodedUpdate /\ out.nested # << >>) => out.err = Head(out.nested)

\* C6: no decode call, on any buffer, ends in an index or slice out of range.
C6_NoPanic ==
    (phase = "decoded" /\ out.op \in {"decode", "attr"}) => out.err # Panic

\* the length an attribute declares, and the bytes of its header
DeclaredLen(pkt) ==
    IF BitAnd(At(pkt, 0), BGPPathAttrFlagExtendedLen) # 0 THEN Uint16(Slice(pkt, 2, 4)) ELSE At(pkt, 2)

HeaderLen(pkt) == IF BitAnd(At(pkt, 0), BGPPathAttrFlagExtendedLen) # 0 THEN 4 ELSE 3

\* the buffer holds a complete Origin attribute that declares length 2
OriginOfLength2 ==
    /\ phase = "decoded" /\ out.op = "attr"
    /\ Len(wire) >= 4
    /\ At(wire, 1) = BGPPathAttrTypeOrigin
    /\ DeclaredLen(wire) = 2
    /\ Len(wire) >= HeaderLen(wire) + 2

AttrLenErrorReturned ==
    out.err = BGPMessageError(BGPUpdateMsgError, BGPAttrLenError, Slice(wire, 0, HeaderLen(wire) + 2))

\* C7 as stated: decoding any Origin attribute that declares length 2 returns
\* UPDATE message error / attribute length error with the attribute's bytes.
C7_OriginLength2_AnyFlags == OriginOfLength2 => AttrLenErrorReturned

\* Origin's flag pattern: transitive, neither optional nor partial
OriginFlags(pkt) == BitAnd(At(pkt, 0), BGPPathAttrFlagAllMinusExtendedLen) = BGPPathAttrFlagTransitive

\* C7: decoding an Origin attribute with Origin's flag pattern that declares
\* length 2 returns UPDATE message error / attribute length error whose data is
\* the attribute's bytes, header and both value bytes.
C7_OriginLength2 == (OriginOfLength2 /\ OriginFlags(wire)) => AttrLenErrorReturned

C7_Witness == OriginOfLength2 /\ OriginFlags(wire) /\ AttrLenErrorReturned /\ Len(out.err.Data) = 5

\* C8: an UPDATE decoded without error holds no attribute type code twice.
C8_NoDuplicateAttributes ==
    (DecodedUpdate /\ out.err = Nil) => ~checkPathAttributes_dup(out.msg.Body.PathAttributes)

\* C9: Encode returns an error and no bytes whenever 19 plus the body exceeds
\* 4096, whatever the header length was before the call; otherwise it succeeds
\* and fills in a header length that was 0.
C9_EncodeSizeLimit ==
    (phase = "encoded" /\ out.op = "encode" /\ out.body.err = Nil)
    => IF BGPMsgHeaderLen + Len(out.body.pkt) > BGPMsgMaxLen
       THEN IsError(out.err) /\ wire = << >>
       ELSE /\ out.err = Nil
            /\ out.before.Header.Length = 0 =>
                   /\ msg.Header.Length = BGPMsgHeaderLen + Len(out.body.pkt)
                   /\ Uint16(Slice(wire, 16, 18)) = msg.Header.Length

\* C10: for a header type outside 1..4 BGPMessage.Decode runs no body decoder
\* and returns an error.
C10_UnknownTypeRejected ==
    (Decoded /\ out.header.Type \notin {BGPMsgTypeOpen, BGPMsgTypeUpdate,
                                         BGPMsgTypeNotification, BGPMsgTypeKeepAlive})
    => ~out.ran /\ IsError(out.err)

\* an OPEN as its holder sees it: every pointer followed to the object it
\* points at, in globals g
OpenView(g, body) ==
    [body EXCEPT !.OptParams =
        [i \in 1..Len(body.OptParams) |->
            LET param == Deref(g, body.OptParams[i])
            IN  IF param.kind = "BGPOptParamCapability"
                THEN [param EXCEPT !.Value = [j \in 1..Len(param.Value) |-> Deref(g, param.Value[j])]]
                ELSE param]]

\* the pointers an OPEN holds to objects of the dispatch maps
SharedObjects(g, body) ==
    { body.OptParams[i].ref : i \in { k \in 1..Len(body.OptParams) : IsRef(body.OptParams[k]) } } \cup
    UNION { { Deref(g, body.OptParams[i]).Value[j].ref :
                j \in { k \in 1..Len(Deref(g, body.OptParams[i]).Value) :
                           IsRef(Deref(g, body.OptParams[i]).Value[k]) } } :
            i \in { k \in 1..Len(body.OptParams) :
                      Deref(g, body.OptParams[k]).kind = "BGPOptParamCapability" } }

DecodedOpen == Decoded /\ out.header.Type = BGPMsgTypeOpen /\ out.ran

\* what the same call returns in a process that has decoded nothing before
DecodedAlone == BGPMessage_Decode(GlobalsInit, NewBGPMessage, out.header, From(wire, 19), peer)

\* what a session's decode returns in a process where nothing else decodes
SessionDecodedAlone(n) == BGPOpen_Decode(GlobalsInit, sessions[n].pkt)

\* C11: decoding an OPEN, by successive calls or by sessions whose decodes
\* interleave, leaves the objects the dispatch maps hold as they were at
\* initialization, the decoded OPEN holds no pointer to any of them (so two
\* decoded OPENs share no object), and the call returns what it returns when
\* it is the only decode the process ever ran.
C11_NoSharedCodecState ==
    /\ DecodedOpen =>
           /\ globals = GlobalsInit
           /\ out.err = Nil =>
                  /\ SharedObjects(globals, out.msg.Body) = {}
                  /\ OpenView(globals, out.msg.Body) =
                         OpenView(DecodedAlone.g, DecodedAlone.msg.Body)
    /\ \A n \in Sessions :
           sessions[n].pc = "done" =>
               /\ sessions[n].left = GlobalsInit
               /\ sessions[n].err = SessionDecodedAlone(n).err
               /\ sessions[n].err = Nil =>
                      /\ SharedObjects(sessions[n].left, sessions[n].body) = {}
                      /\ OpenView(sessions[n].left, sessions[n].body) =
                             OpenView(SessionDecodedAlone(n).g, SessionDecodedAlone(n).body)

\* two OPEN bodies are structurally equal: the same version, AS, hold time,
\* identifier bytes, parameter length and optional parameters
OpenEqual(ga, a, gb, b) ==
    /\ a.kind = "BGPOpen" /\ b.kind = "BGPOpen"
    /\ a.Version = b.Version /\ a.MyAS = b.MyAS /\ a.HoldTime = b.HoldTime
    /\ a.BGPId = b.BGPId
    /\ a.OptParamLen = b.OptParamLen
    /\ OpenView(ga, a).OptParams = OpenView(gb, b).OptParams

\* the OPEN of scenario S1 was encoded once and decoded from those bytes
S1RoundTrip ==
    /\ Decoded /\ out.loop /\ encodes = 1
    /\ out.sent.Body = S1Open.Body

\* C12: the OPEN of scenario S1 encodes to exactly 35 bytes, and decoding
\* those bytes returns a message equal to the one encoded: version 4, the
\* same AS, hold time, BGP identifier and capability.
C12_S1_35Bytes ==
    S1RoundTrip => /\ Len(wire) = 35
                   /\ out.err = Nil
                   /\ OpenEqual(globals, out.msg.Body, globals, out.sent.Body)

\* what the round trip of scenario S1 returns: a frame of 37 bytes (19 of
\* header, 10 fixed, 2 of parameter header, 6 of capability) and an OPEN that
\* differs from the one encoded in its identifier alone, 4 bytes decoded from
\* the wire against the 16 bytes net.ParseIP built
S1RoundTripReturns ==
    S1RoundTrip => /\ Len(wire) = 37
                   /\ out.err = Nil
                   /\ out.msg.Header = out.sent.Header
                   /\ out.sent.Body.BGPId = ParseIP(<< 10, 0, 0, 1 >>)
                   /\ out.msg.Body = [OpenView(globals, out.msg.Body) EXCEPT !.OptParams = out.msg.Body.OptParams]
                   /\ OpenView(globals, out.msg.Body) =
                          [OpenView(globals, out.sent.Body) EXCEPT !.BGPId = << 10, 0, 0, 1 >>]

\* the body of the OPEN on the wire, and its first optional parameter when the
\* wire holds all of it
OpenBody == From(wire, BGPMsgHeaderLen)

FirstParam == Slice(OpenBody, 10, 12 + OpenBody[12])

HasFirstParam ==
    /\ Len(OpenBody) >= 12 /\ OpenBody[10] >= 2
    /\ Len(OpenBody) >= 12 + OpenBody[12] /\ OpenBody[10] >= 2 + OpenBody[12]

\* C13: decoding an OPEN whose (first) optional parameter has a type other
\* than Capability returns OPEN message error / unsupported optional parameter,
\* and the error's Data holds a copy of that parameter's bytes (the whole
\* parameter, or its value).
C13_UnsupportedOptParam ==
    (DecodedOpen /\ HasFirstParam /\ OpenBody[11] # BGPOptParamTypeCapability)
    => /\ out.err # Nil
       /\ out.err.TypeCode = BGPOpenMsgError
       /\ out.err.SubTypeCode = BGPUnsupportedOptionalParam
       /\ out.err.Data \in { FirstParam, From(FirstParam, 2) }

\* the places where an OPEN on the wire ends before what it announces: in the
\* 10 fixed bytes, in the type and length of the first parameter, in the value
\* of a first parameter of type Capability, in the data of its first capability
ShortFixed == Len(OpenBody) < 10

ShortParamHeader == Len(OpenBody) \in {10, 11} /\ OpenBody[10] > 0

ShortParamValue ==
    /\ Len(OpenBody) >= 12 /\ OpenBody[10] > 0
    /\ OpenBody[11] = BGPOptParamTypeCapability
    /\ Len(OpenBody) < 12 + OpenBody[12]

ShortCapData ==
    /\ Len(OpenBody) >= 14 /\ OpenBody[10] > 0
    /\ OpenBody[11] = BGPOptParamTypeCapability
    /\ Len(OpenBody) = 12 + OpenBody[12]
    /\ Len(OpenBody) < 14 + OpenBody[14]

OpenOnWire == phase = "decoded" /\ out.op = "decode" /\ out.header.Type = BGPMsgTypeOpen

\* C14: a decode of an OPEN that runs out of bytes, at any of these steps,
\* returns OPEN message error / unspecific: no other error, no success, no
\* panic.
C14_ShortOpenUnspecific ==
    (OpenOnWire /\ (ShortFixed \/ ShortParamHeader \/ ShortParamValue \/ ShortCapData))
    => /\ out.err \notin {Nil, Panic, Diverge}
       /\ out.err.TypeCode = BGPOpenMsgError
       /\ out.err.SubTypeCode = BGPUnspecific

\* the first capability of the first parameter of the OPEN on the wire, when
\* the wire holds all of it
FirstCap == Slice(OpenBody, 12, 14 + OpenBody[14])

HasFirstCap ==
    /\ HasFirstParam /\ OpenBody[11] = BGPOptParamTypeCapability
    /\ OpenBody[12] >= 2 /\ Len(OpenBody) >= 14
    /\ OpenBody[12] >= 2 + OpenBody[14] /\ Len(OpenBody) >= 14 + OpenBody[14]

ReencodedOpen ==
    /\ phase = "reencoded" /\ out.op = "reencode"
    /\ Len(wire) >= BGPMsgHeaderLen /\ wire[19] = BGPMsgTypeOpen

\* C15: an OPEN whose capability parameter holds a capability of a code other
\* than 1, 65 and 69, decoded and encoded again, carries that capability's
\* code, length and data bytes as they were on the wire.
C15_UnknownCapabilityPassThrough ==
    (ReencodedOpen /\ HasFirstCap /\ OpenBody[13] \notin DOMAIN BGPCapTypeToStruct)
    => /\ out.err = Nil
       /\ Len(out.pkt) >= BGPMsgHeaderLen + 14 + OpenBody[14]
       /\ Slice(From(out.pkt, BGPMsgHeaderLen), 12, 14 + OpenBody[14]) = FirstCap

\* the attribute at the head of the buffer handed to DecodeAttr: its header
\* length, declared length and bytes, when the buffer holds all of it
AttrHeaderLen == IF BitAnd(wire[1], BGPPathAttrFlagExtendedLen) # 0 THEN 4 ELSE 3

AttrDeclaredLen == IF AttrHeaderLen = 4 THEN Uint16(Slice(wire, 2, 4)) ELSE wire[3]

AttrComplete ==
    /\ Len(wire) >= 3 /\ Len(wire) >= AttrHeaderLen
    /\ Len(wire) >= AttrHeaderLen + AttrDeclaredLen

AttrBytes == Slice(wire, 0, AttrHeaderLen + AttrDeclaredLen)

OptionalTransitive(flags) ==
    /\ BitAnd(flags, BGPPathAttrFlagOptional) # 0
    /\ BitAnd(flags, BGPPathAttrFlagTransitive) # 0

\* C16: an attribute whose type code is none of 1,2,3,4,5,6,7,9,10,14,15,17,18
\* (optional and transitive on the wire) decodes without error into an Unknown
\* attribute holding the flags and value bytes of the wire, and encoding that
\* attribute gives the bytes of the wire again; an attribute with one of the
\* listed codes is decoded into its own variant.
C16_UnknownAttributePassThrough ==
    /\ (phase = "decoded" /\ out.op = "attr" /\ AttrComplete)
       => IF wire[2] \in DOMAIN BGPPathAttrTypeToStructMap
          THEN out.pa.kind = BGPPathAttrTypeToStructMap[wire[2]]
          ELSE OptionalTransitive(wire[1])
               => /\ out.err = Nil
                  /\ out.pa.kind = "BGPPathAttrUnknown"
                  /\ out.pa.BGPPathAttrBase.Flags = wire[1]
                  /\ out.pa.Value = From(AttrBytes, AttrHeaderLen)
    /\ (/\ phase = "reencoded" /\ out.op = "reencodeAttr"
        /\ wire[2] \notin DOMAIN BGPPathAttrTypeToStructMap)
       => out.err = Nil /\ out.pkt = AttrBytes

\* the codec-level rejections of the taxonomy, as << code, subcode >>
Taxonomy ==
    { << BGPMsgHeaderError, s >> : s \in {BGPBadMessageLen, BGPBadMessageType, BGPConnNotSychd} } \cup
    { << BGPOpenMsgError, s >> :
        s \in {BGPUnsupportedVersionNumber, BGPBadPeerAS, BGPBadBGPIdentifier,
                BGPUnsupportedOptionalParam, BGPUnacceptableHoldTime, BGPUnsupportedCapability} } \cup
    { << BGPUpdateMsgError, s >> :
        s \in {BGPMalformedAttrList, BGPUnrecognizedWellKnownAttr, BGPMissingWellKnownAttr,
                BGPAttrFlagsError, BGPAttrLenError, BGPInvalidOriginAttr, BGPInvalidNextHopAttr,
                BGPOptionalAttrError, BGPInvalidNetworkField, BGPMalformedASPath} }

\* what the decoders return on the frames and attributes of the samples:
\* BGPHeader.Decode and BGPMessage.Decode on each frame, BGPGetPathAttr and
\* Decode on each attribute, for each kind of peer
ReturnedErrors ==
    { BGPMessage_Decode(GlobalsInit, NewBGPMessage, BGPHeader_Decode(NewBGPHeader, w).header,
                        From(w, BGPMsgHeaderLen), p).err :
        w \in { x \in WireSamples : Len(x) >= BGPMsgHeaderLen }, p \in Peers } \cup
    { BGPPathAttr_Decode(BGPGetPathAttr(pkt), pkt, p).err :
        pkt \in { x \in AttrSamples : Len(x) >= 2 }, p \in Peers }

ReturnedCodes ==
    { << e.TypeCode, e.SubTypeCode >> : e \in { x \in ReturnedErrors : x.kind = "error" } }

\* C17: for each codec-level rejection of the taxonomy some input makes a
\* decode return exactly that code and subcode.
C17_RejectionCoverage == Taxonomy \subseteq ReturnedCodes

\* the 4-byte-AS capabilities among the optional parameters of an OPEN
AS4Capabilities(g, body) ==
    { c \in UNION { { p.Value[j] : j \in 1..Len(p.Value) } :
                      p \in { q \in { OpenView(g, body).OptParams[i] : i \in 1..Len(body.OptParams) } :
                                 q.kind = "BGPOptParamCapability" } } :
        c.kind = "BGPCapAS4Path" }

BuiltOpen == phase = "built" /\ out.op = "new" /\ msg.Body.kind = "BGPOpen"

EncodedOpen ==
    /\ phase = "encoded" /\ out.op = "encode" /\ out.err = Nil
    /\ out.before.Body.kind = "BGPOpen"

\* C18: the OPEN NewBGPOpenMessage returns for myAS > 65535 has AS_TRANS
\* (23456) as its AS and carries myAS in a 4-byte-AS capability among its
\* optional parameters; for myAS <= 65535 its AS is myAS; and Encode writes
\* the AS of the message into the 2-byte field of the wire.
C18_ASTransWithCapability ==
    /\ BuiltOpen =>
          IF AboveMaxUint16(out.args.myAS)
          THEN /\ msg.Body.MyAS = BGPASTrans
               /\ \E c \in AS4Capabilities(globals, msg.Body) : c.Value = out.args.myAS
          ELSE msg.Body.MyAS = out.args.myAS
    /\ EncodedOpen =>
          Uint16(Slice(wire, BGPMsgHeaderLen + 1, BGPMsgHeaderLen + 3)) = out.before.Body.MyAS

SegmentOp == phase = "segment" /\ out.op \in {"prepend", "append"}

\* C19: PrependAS and AppendAS on a segment that holds 255 ASes return false
\* and leave the segment as it was; on any other segment, 2-byte or 4-byte,
\* they return true, the count grows by one, the AS passed in is first
\* (prepend) or last (append), and the ASes held before keep their order.
C19_AnyAS ==
    SegmentOp =>
        IF Len(out.before.AS) = 255
        THEN ~out.ok /\ seg = out.before
        ELSE /\ out.ok
             /\ seg.Length = out.before.Length + 1
             /\ IF out.op = "prepend"
                THEN Tail(seg.AS) = out.before.AS /\ Head(seg.AS) = out.as
                ELSE /\ SubSeq(seg.AS, 1, Len(out.before.AS)) = out.before.AS
                     /\ seg.AS[Len(seg.AS)] = out.as

\* what the calls do with an AS above 65535 on a 2-byte segment: the low 16
\* bits of the AS are stored, and nothing else of the claim fails
PrependAppendStores ==
    SegmentOp =>
        IF Len(out.before.AS) = 255
        THEN ~out.ok /\ seg = out.before
        ELSE /\ out.ok
             /\ seg.Length = out.before.Length + 1
             /\ Len(seg.AS) = Len(out.before.AS) + 1
             /\ IF out.op = "prepend"
                THEN /\ Tail(seg.AS) = out.before.AS
                     /\ Head(seg.AS) = IF ASWidth(seg) = 2 THEN U16(out.as) ELSE out.as
                ELSE /\ SubSeq(seg.AS, 1, Len(out.before.AS)) = out.before.AS
                     /\ seg.AS[Len(seg.AS)] = IF ASWidth(seg) = 2 THEN U16(out.as) ELSE out.as

\* C20: after BGPHeader.Decode on a frame, the header's Marker is the 16 marker
\* bytes of the frame, Length the big-endian value of bytes 16..17 and Type
\* byte 18; and the bytes Encode returns start with 16 bytes 0xFF, then the
\* header's length and type.
C20_HeaderFields ==
    /\ Decoded =>
          /\ out.header.Marker = Slice(wire, 0, BGPHeaderMarkerLen)
          /\ out.header.Length = Uint16(Slice(wire, 16, 18))
          /\ out.header.Type = wire[19]
    /\ (phase = "encoded" /\ out.op = "encode" /\ out.err = Nil) =>
          /\ Slice(wire, 0, BGPHeaderMarkerLen) = [i \in 1..BGPHeaderMarkerLen |-> 255]
          /\ Uint16(Slice(wire, 16, 18)) = msg.Header.Length
          /\ wire[19] = msg.Header.Type

\* the peer's Add-Path map has an entry for the AFI and, under it, for the SAFI
HasAddPath(p, afi, safi) ==
    afi \in DOMAIN p.AddPathFamily /\ safi \in DOMAIN p.AddPathFamily[afi]

\* the peer as the top-level NLRI of an UPDATE are to see it: with its Add-Path
\* map when that holds IPv4 unicast, with an empty one otherwise
UnicastView(p) ==
    [p EXCEPT !.AddPathFamily = IF HasAddPath(p, AfiIP, SafiUnicast) THEN @ ELSE << >>]

\* what Decode returns for the frame when the peer's map is the unicast view
DecodedForUnicast ==
    BGPMessage_Decode(globals, NewBGPMessage, out.header, From(wire, BGPMsgHeaderLen),
                      UnicastView(peer))

\* C21: the withdrawn and announced entries of an UPDATE are read as a 4-byte
\* path id and a plain prefix exactly when the peer's Add-Path map holds IPv4
\* unicast, and as plain prefixes when it does not, also when the map holds the
\* IPv4 AFI under another SAFI: Decode returns what it returns for a peer
\* whose map holds IPv4 unicast or nothing.
C21_NlriDispatch ==
    DecodedUpdate =>
        /\ out.err = DecodedForUnicast.err
        /\ out.msg.Body = DecodedForUnicast.msg.Body
        /\ \A i \in 1..Len(out.msg.Body.NLRI) :
              out.msg.Body.NLRI[i].kind = "ExtNLRI" <=> HasAddPath(peer, AfiIP, SafiUnicast)

\* the value lengths of the fixed-length attribute types: 1 for Origin, 4 for
\* Next_Hop, Multi_Exit_Disc and Local_Pref, 0 for Atomic_Aggregate, 6 for
\* Aggregator and 8 for AS4_Aggregator
FixedLengths ==
    (BGPPathAttrTypeOrigin :> 1) @@ (BGPPathAttrTypeNextHop :> 4) @@
    (BGPPathAttrTypeMultiExitDisc :> 4) @@ (BGPPathAttrTypeLocalPref :> 4) @@
    (BGPPathAttrTypeAtomicAggregate :> 0) @@ (BGPPathAttrTypeAggregator :> 6) @@
    (BGPPathAttrTypeAS4Aggregator :> 8)

DecodedAttr == phase = "decoded" /\ out.op = "attr"

AttrLenError == BGPMessageError(BGPUpdateMsgError, BGPAttrLenError, AttrBytes)

FlagsError(err) ==
    err.kind = "error" /\ err.TypeCode = BGPUpdateMsgError /\ err.SubTypeCode = BGPAttrFlagsError

\* what pa.Decode returns when the buffer ends with the attribute
DecodedAttrAlone == BGPPathAttr_Decode(BGPGetPathAttr(wire), AttrBytes, peer)

\* C22: a fixed-length attribute (Origin 1, Next_Hop 4, Multi_Exit_Disc 4,
\* Local_Pref 4, Atomic_Aggregate 0, Aggregator 6, AS4_Aggregator 8) is accepted
\* only with its type's declared length; with another length, unless its flags
\* are rejected first, Decode returns the UPDATE attribute-length error; and
\* Decode reads nothing after the declared length: it returns what it returns
\* when the buffer ends with the attribute.
C22_FixedLength ==
    (DecodedAttr /\ AttrComplete /\ wire[2] \in DOMAIN FixedLengths) =>
        /\ out.err = Nil => AttrDeclaredLen = FixedLengths[wire[2]]
        /\ (AttrDeclaredLen # FixedLengths[wire[2]] /\ ~FlagsError(out.err))
              => out.err = AttrLenError
        /\ out.err = DecodedAttrAlone.err /\ out.pa = DecodedAttrAlone.pa

\* the optional and transitive bits of the well-known types (0x40) and of the
\* optional transitive types (0xC0)
FlagPatterns ==
    [c \in {BGPPathAttrTypeOrigin, BGPPathAttrTypeASPath, BGPPathAttrTypeNextHop,
            BGPPathAttrTypeLocalPref, BGPPathAttrTypeAtomicAggregate}
        |-> BGPPathAttrFlagTransitive] @@
    [c \in {BGPPathAttrTypeAggregator, BGPPathAttrTypeAS4Path, BGPPathAttrTypeAS4Aggregator}
        |-> BGPPathAttrFlagOptional + BGPPathAttrFlagTransitive]

OptionalTransitiveBits(flags) ==
    BitAnd(flags, BGPPathAttrFlagOptional + BGPPathAttrFlagTransitive)

AttrFlagsError == BGPMessageError(BGPUpdateMsgError, BGPAttrFlagsError, AttrBytes)

\* C23: for Origin, AS_PATH, Next_Hop, Local_Pref, Atomic_Aggregate (pattern
\* 0x40) and Aggregator, AS4_Path, AS4_Aggregator (pattern 0xC0), attribute decode
\* returns the UPDATE attribute-flags error with the attribute's bytes exactly
\* when the optional and transitive bits of the flags differ from the pattern
\* of the type.
C23_FlagPattern ==
    (DecodedAttr /\ AttrComplete /\ wire[2] \in DOMAIN FlagPatterns) =>
        (out.err = AttrFlagsError <=> OptionalTransitiveBits(wire[1]) # FlagPatterns[wire[2]])

OptionalNonTransitive(flags) == OptionalTransitiveBits(flags) = BGPPathAttrFlagOptional

\* C24: an attribute of any type code whose flags are optional, non-transitive
\* and partial is rejected with the UPDATE attribute-flags error, and an
\* optional non-transitive attribute whose partial bit is clear (Multi_Exit_Disc,
\* Originator_Id, Cluster_List with flags 0x80, an unknown type) is not rejected
\* with that error.
C24_PartialBit ==
    (DecodedAttr /\ AttrComplete /\ OptionalNonTransitive(wire[1])) =>
        IF BitAnd(wire[1], BGPPathAttrFlagPartial) # 0
        THEN out.err = AttrFlagsError
        ELSE wire[2] \notin DOMAIN FlagPatterns => out.err # AttrFlagsError

RECURSIVE Concat(_)
Concat(list) == IF list = << >> THEN << >> ELSE Head(list) \o Concat(Tail(list))

\* flags, type code and the length in one byte, or in two with the extended
\* length flag
HeaderLayout(b) ==
    << b.Flags, b.Code >> \o
    (IF BitAnd(b.Flags, BGPPathAttrFlagExtendedLen) # 0 THEN Bytes16(b.Length) ELSE << b.Length >>)

\* the bytes of an MP_Reach or MP_Unreach attribute
MPLayout(pa) ==
    HeaderLayout(pa.BGPPathAttrBase) \o Bytes16(pa.AFI) \o << pa.SAFI >> \o
    (IF pa.kind = "BGPPathAttrMPReachNLRI"
     THEN << Len(pa.NextHop) >> \o pa.NextHop \o << 0 >> ELSE << >>) \o
    Concat(pa.NLRI)

\* C25: encoding an MP_Reach attribute gives header, AFI (2 bytes), SAFI (1),
\* next hop length (1), next hop, a reserved 0 byte and the NLRI entries with
\* their bit lengths; encoding an MP_Unreach attribute gives header, AFI, SAFI
\* and the NLRI entries; and decoding these bytes returns no error and an
\* attribute with the same address family, next hop and NLRI bytes.
C25_MPLayout ==
    /\ (phase = "attrEncoded" /\ out.op = "encodeAttr")
          => out.err = Nil /\ out.pkt = MPLayout(out.pa)
    /\ (phase = "decoded" /\ out.op = "decodeSent")
          => /\ out.err = Nil
             /\ out.pa.AFI = out.sent.AFI /\ out.pa.SAFI = out.sent.SAFI
             /\ out.pa.kind = "BGPPathAttrMPReachNLRI" => out.pa.NextHop = out.sent.NextHop
             /\ out.pa.NLRI = out.sent.NLRI

\* C26: for every bit length L in 0..255, Decode of a prefix followed by its
\* ceil(L/8) bytes returns no error and Len() is 1 + ceil(L/8), without 8-bit
\* wrap-around; for L <= 32 the decoded prefix holds the ceil(L/8) bytes of the
\* wire and zeros up to 4 bytes, and Encode of it gives the bytes of the wire
\* that Decode consumed.
C26_PrefixFraming ==
    /\ (phase = "prefix" /\ out.op = "decodePrefix")
          => /\ out.err = Nil
             /\ out.len = 1 + PrefixBytes(wire[1])
             /\ wire[1] <= 32
                   => out.nlri.Prefix = Copy(Zeros(4), 0, Slice(wire, 1, 1 + PrefixBytes(wire[1])))
    /\ (phase = "prefixEncoded" /\ out.op = "encodePrefix" /\ wire[1] <= 32)
          => out.err = Nil /\ out.pkt = Slice(wire, 0, 1 + PrefixBytes(wire[1]))

\* the bytes the attributes of a list take
RECURSIVE AttrBlockLen(_)
AttrBlockLen(attrs) ==
    IF attrs = << >> THEN 0 ELSE BGPPathAttr_TotalLen(Head(attrs)) + AttrBlockLen(Tail(attrs))

\* C27: Decode of an UPDATE ends on every input; the attributes its loop has
\* read never take more bytes than the declared total attribute length, so the
\* remaining length does not wrap below 0 and the loop does not run past the
\* attribute block; and when Decode returns no error the attributes take
\* exactly the declared length.
C27_UpdateDecodeTerminates ==
    (DecodedUpdate /\ out.ran /\ out.msg.Body.kind = "BGPUpdate") =>
        /\ out.err # Diverge
        /\ AttrBlockLen(out.msg.Body.PathAttributes) <= out.msg.Body.TotalPathAttrLen
        /\ out.err = Nil
              => AttrBlockLen(out.msg.Body.PathAttributes) = out.msg.Body.TotalPathAttrLen

\* C28: a segment of 2-byte or 4-byte ASes that a constructor, Decode or
\* CloneAsAS2PathSegment returned, after any PrependAS and AppendAS calls, has
\* Length equal to the number of ASes it holds and TotalLen() equal to
\* 2 + width * Length, for every count up to 255 and without 8-bit wrap-around;
\* so TotalLen() is positive and the segment loop advances.
C28_SegmentSize ==
    phase = "segment" =>
        /\ seg.Length = Len(seg.AS)
        /\ BGPASPathSegment_TotalLen(seg) = 2 + ASWidth(seg) * seg.Length
        /\ BGPASPathSegment_TotalLen(seg) > 0

\* the bytes the segments of a path take
RECURSIVE SegmentsLen(_)
SegmentsLen(segs) ==
    IF segs = << >> THEN 0 ELSE BGPASPathSegment_TotalLen(Head(segs)) + SegmentsLen(Tail(segs))

\* C29: after NewBGPPathAttrASPath and any PrependASPathSegment,
\* AppendASPathSegment calls and PrependAS, AppendAS calls on segments of the
\* path, the Length of the attribute is the sum of TotalLen() of its segments
\* (within 16 bits), and Encode writes every segment inside the buffer it
\* allocated: it returns the bytes without a panic.
C29_PathLength ==
    /\ phase \in {"path", "pathEncoded"}
          => path.BGPPathAttrBase.Length = U16(SegmentsLen(path.Value))
    /\ (phase = "pathEncoded" /\ out.op = "encodePath")
          => /\ out.err = Nil
             /\ Len(out.pkt) = path.BGPPathAttrBase.BGPPathAttrLen + SegmentsLen(path.Value)

\* C30: an attribute that a NewBGPPathAttr* constructor returned has the type
\* code under which the dispatch table holds its variant (17 for the AS4_Path
\* constructor), and its BGPPathAttrLen is 4 when its extended-length flag
\* (0x10) is set and 3 when it is not.
C30_ConstructorWellFormed ==
    (phase = "attr" /\ out.op = "newAttr") =>
        /\ out.pa.BGPPathAttrBase.Code \in DOMAIN BGPPathAttrTypeToStructMap
        /\ BGPPathAttrTypeToStructMap[out.pa.BGPPathAttrBase.Code] = out.pa.kind
        /\ out.pa.BGPPathAttrBase.BGPPathAttrLen =
              IF BitAnd(out.pa.BGPPathAttrBase.Flags, BGPPathAttrFlagExtendedLen) # 0 THEN 4 ELSE 3

====
